---- MODULE Spec2Model ----
(***************************************************************************)
(* Model of the Mission100M trading bot: the rule-based strategy engine    *)
(* (src/lib/strategy.js), and the trading request handler                  *)
(* (src/api/trading.js) with the parts of the Google-Sheets storage        *)
(* (src/lib/storage.js) and the broker adapter (src/lib/alpaca.js) that    *)
(* the handler drives.                                                     *)
(*                                                                         *)
(* Units.  JavaScript numbers are modelled by integers in fixed units:     *)
(*   prices                whole dollars                                   *)
(*   quantities            1/QtyScale of a coin (0.0001 ETH)               *)
(*   percentages           tenths of a percent (STOP_LOSS_PCT = 20 is 2.0) *)
(*   confidence            hundredths (98 is 0.98, 6000 is 60)             *)
(*   volatility            thousandths (20 is 0.02)                        *)
(*   time                  units of five minutes                           *)
(* Every floating-point division of the source is replaced by the          *)
(* cross-multiplied comparison, with the IEEE results of a division by     *)
(* zero (Infinity, NaN) spelled out.  Rounding error of the doubles is     *)
(* not modelled.                                                           *)
(***************************************************************************)
EXTENDS Integers, Sequences, FiniteSets, TLC

VARIABLES
    pc,          \* position of the strategy caller: "idle" or "done"
    td,          \* technicalData argument of the analyze calls
    position,    \* currentPosition argument of the analyze calls
    lastTradeArg, \* lastTrade argument of the analyze calls
    decision,    \* Decision returned by the analyze call in progress
    prev,        \* Decision returned by the call before it
    engine,      \* the class of src/lib/strategy.js behind `strategy`
    now,         \* wall clock (Date.now())
    market,      \* what Yahoo Finance answers: quote price and bar-derived indicators
    trades,      \* rows of the Trades sheet, oldest first
    sheet,       \* rows of the Positions sheet
    isInitialized, \* storage.isInitialized of this server instance
    reqs,        \* the handler invocations that can run
    h,           \* per invocation: position in the handler and its locals
    bars,        \* closes of the historical bars handed to the indicators
    accountInfoArg, \* accountInfo argument of the analyze calls
    args,        \* arguments of the call of a scoring or sizing function
    returned,    \* what that call returned
    observedPeak, \* highest price the runs have observed on the open position
    urgentOrder, \* the order the last monitoring run placed, with its context
    callers      \* the updatePosition calls in progress, each with its locals

stratVars == <<pc, td, position, lastTradeArg, decision, prev>>
callVars == <<args, returned, observedPeak, urgentOrder, callers>>
handlerVars == <<market, trades, sheet, isInitialized, reqs, h, bars, accountInfoArg,
                 args, returned, observedPeak, urgentOrder, callers>>
vars == <<pc, td, position, lastTradeArg, decision, prev, engine, now,
          market, trades, sheet, isInitialized, reqs, h, bars, accountInfoArg,
          args, returned, observedPeak, urgentOrder, callers>>

\* an optional value (null or an object) is a sequence of length 0 or 1
Null == <<>>
Some(x) == <<x>>

(***************************************************************************)
(* Program constants of ProfessionalTradingStrategy                        *)
(***************************************************************************)
QtyScale == 10 * 1000          \* quantity units per coin
MAX_POSITION_SIZE == 300
PROFIT_TARGET_PCT == 30
STOP_LOSS_PCT == 20
TRAILING_STOP_PCT == 10
RSI_OVERSOLD == 30
RSI_OVERBOUGHT == 70
MAX_DAILY_TRADES == 10
MAX_CONSECUTIVE_LOSSES == 3
MAX_DRAWDOWN_PCT == 5
MIN_VOLUME_THRESHOLD == 1000
VOLATILITY_MULTIPLIER == 12
MIN_POSITION_VALUE == 10
MIN_VALID_QUANTITY == 10
DEFAULT_VOLATILITY == 20
DEFAULT_RSI == 50
MIN_SIZE == 100

Max(a, b) == IF a >= b THEN a ELSE b
Min(a, b) == IF a <= b THEN a ELSE b

(***************************************************************************)
(* IEEE comparisons of the quotient num/den (den >= 0) with k/scale.       *)
(* den = 0: num > 0 is +Infinity, num < 0 is -Infinity, num = 0 is NaN     *)
(* (every comparison with NaN is false).                                   *)
(***************************************************************************)
RatioLeq(num, den, k, scale) ==
    IF den > 0 THEN num * scale <= k * den ELSE num < 0

RatioGeq(num, den, k, scale) ==
    IF den > 0 THEN num * scale >= k * den ELSE num > 0

RatioLt(num, den, k, scale) ==
    IF den > 0 THEN num * scale < k * den ELSE num < 0

RatioGt(num, den, k, scale) ==
    IF den > 0 THEN num * scale > k * den ELSE num > 0

\* pnlPercentage = ((currentPrice - averagePrice) / averagePrice) * 100,
\* compared with k tenths of a percent
PnlLeq(currentPrice, averagePrice, k) ==
    RatioLeq(currentPrice - averagePrice, averagePrice, k, 1000)

PnlGeq(currentPrice, averagePrice, k) ==
    RatioGeq(currentPrice - averagePrice, averagePrice, k, 1000)

PnlGt(currentPrice, averagePrice, k) ==
    RatioGt(currentPrice - averagePrice, averagePrice, k, 1000)

Last(s) == s[Len(s)]

getLatestRSI(technicalData) ==
    IF Len(technicalData.rsi) > 0
    THEN (IF Last(technicalData.rsi) # 0 THEN Last(technicalData.rsi) ELSE DEFAULT_RSI)
    ELSE DEFAULT_RSI

getLatestSMA(technicalData) ==
    IF Len(technicalData.sma) > 0
    THEN (IF Last(technicalData.sma) # 0 THEN Last(technicalData.sma)
          ELSE technicalData.currentPrice)
    ELSE technicalData.currentPrice

determineTrend(technicalData) ==
    LET s == technicalData.sma
        n == Len(s)
    IN  IF n >= 3
        THEN (IF s[n] > s[n-1] /\ s[n-1] > s[n-2] THEN "UPTREND"
              ELSE IF s[n] < s[n-1] /\ s[n-1] < s[n-2] THEN "DOWNTREND"
              ELSE "NEUTRAL")
        ELSE "NEUTRAL"

\* historical absent or shorter than 10 bars (histVol empty): 0.02; otherwise
\* the standard deviation of the returns, which the input carries in histVol
NoHistory == <<>>

calculateVolatility(technicalData) ==
    IF technicalData.histVol = NoHistory THEN DEFAULT_VOLATILITY
    ELSE technicalData.histVol[1]

IsBuySignal(s) == s = "BUY"
IsSellSignal(s) == s = "SELL"

getBullishSignals(signals) == SelectSeq(signals, IsBuySignal)

getBearishSignals(signals) == SelectSeq(signals, IsSellSignal)

hasConsecutiveLosses(lastTrade, maxLosses) == FALSE

assessRisk(currentPosition, accountInfo, lastTrade) ==
    IF hasConsecutiveLosses(lastTrade, MAX_CONSECUTIVE_LOSSES)
    THEN [shouldPause |-> TRUE, positionSizeMultiplier |-> 10]
    ELSE [shouldPause |-> FALSE, positionSizeMultiplier |-> 10]

validatePosition(pos, currentPrice) ==
    IF pos = Null THEN FALSE
    ELSE /\ pos[1].quantity > MIN_VALID_QUANTITY
         /\ pos[1].quantity * currentPrice >= MIN_POSITION_VALUE * QtyScale

\* mutant: the volume point is given at twice the threshold already
calculateBuyScore_volumeAtThreshold(rsi, sma20, currentPrice, trend, bullishSignals, volume) ==
    LET rsiPts == IF rsi < RSI_OVERSOLD THEN 3
                  ELSE IF rsi < RSI_OVERSOLD + 10 THEN 2
                  ELSE IF rsi < 50 THEN 1 ELSE 0
        smaPts == IF RatioGt(currentPrice - sma20, sma20, 2, 100) THEN 2
                  ELSE IF RatioGt(currentPrice - sma20, sma20, 0, 100) THEN 1 ELSE 0
        trendPts == IF trend = "UPTREND" THEN 2
                    ELSE IF trend = "NEUTRAL" THEN 1 ELSE 0
        sigPts == Min(2, Len(bullishSignals))
        volPts == IF volume >= MIN_VOLUME_THRESHOLD * 2 THEN 1 ELSE 0
    IN  Min(10, rsiPts + smaPts + trendPts + sigPts + volPts)

calculateBuyScore(rsi, sma20, currentPrice, trend, bullishSignals, volume) ==
    LET rsiPts == IF rsi < RSI_OVERSOLD THEN 3
                  ELSE IF rsi < RSI_OVERSOLD + 10 THEN 2
                  ELSE IF rsi < 50 THEN 1 ELSE 0
        smaPts == IF RatioGt(currentPrice - sma20, sma20, 2, 100) THEN 2
                  ELSE IF RatioGt(currentPrice - sma20, sma20, 0, 100) THEN 1 ELSE 0
        trendPts == IF trend = "UPTREND" THEN 2
                    ELSE IF trend = "NEUTRAL" THEN 1 ELSE 0
        sigPts == Min(2, Len(bullishSignals))
        volPts == IF volume > MIN_VOLUME_THRESHOLD * 2 THEN 1 ELSE 0
    IN  Min(10, rsiPts + smaPts + trendPts + sigPts + volPts)

calculateTechnicalSellScore(rsi, sma20, currentPrice, trend, bearishSignals) ==
    LET rsiPts == IF rsi > RSI_OVERBOUGHT + 10 THEN 3
                  ELSE IF rsi > RSI_OVERBOUGHT THEN 2
                  ELSE IF rsi > 60 THEN 1 ELSE 0
        smaPts == IF RatioLt(currentPrice - sma20, sma20, -3, 100) THEN 2
                  ELSE IF RatioLt(currentPrice - sma20, sma20, -1, 100) THEN 1 ELSE 0
        trendPts == IF trend = "DOWNTREND" THEN 3
                    ELSE IF trend = "NEUTRAL" THEN 1 ELSE 0
        sigPts == Min(2, Len(bearishSignals))
    IN  Min(10, rsiPts + smaPts + trendPts + sigPts)

\* mutant: the multiplier has no lower limit
volAdjustment_noFloor(volatility) ==
    IF volatility = 0 THEN 15000
    ELSE Min(15000, (1000 * 10 * 10000) \div (volatility * VOLATILITY_MULTIPLIER))

\* volAdjustment = max(0.5, min(1.5, 1 / (volatility * 1.2))) in 1/10000;
\* a volatility of 0 divides by zero and gives Infinity, clamped to 1.5
volAdjustment(volatility) ==
    IF volatility = 0 THEN 15000
    ELSE Max(5000, Min(15000, (1000 * 10 * 10000) \div (volatility * VOLATILITY_MULTIPLIER)))

calculatePositionSize(currentPrice, volatility, riskMetrics) ==
    LET tier == IF currentPrice > 4000 THEN 8
                ELSE IF currentPrice > 3000 THEN 9 ELSE 10
        baseSize == (MAX_POSITION_SIZE * volAdjustment(volatility)
                     * riskMetrics.positionSizeMultiplier * tier) \div (10000 * 10 * 10)
    IN  Max(MIN_SIZE, Min(MAX_POSITION_SIZE, baseSize))

Decision(action, quantity, confidence, urgency, rule) ==
    [action |-> action, quantity |-> quantity, confidence |-> confidence,
     urgency |-> urgency, rule |-> rule]

\* no Decision: analyze has not been called
NoDecision == Decision("NONE", 0, 0, "NONE", "NONE")

\* mutant: the stop loss compares with < and misses a loss of exactly 2.0%
stopLossTriggered_strict(pos, currentPrice) ==
    RatioLt(currentPrice - pos.averagePrice, pos.averagePrice, -STOP_LOSS_PCT, 1000)

\* pnlPercentage <= -this.STOP_LOSS_PCT
stopLossTriggered(pos, currentPrice) ==
    PnlLeq(currentPrice, pos.averagePrice, -STOP_LOSS_PCT)

\* mutant: the profit target compares with > and misses a gain of exactly 3%
profitTargetReached_strict(pos, currentPrice) ==
    PnlGt(currentPrice, pos.averagePrice, PROFIT_TARGET_PCT)

\* pnlPercentage >= this.PROFIT_TARGET_PCT
profitTargetReached(pos, currentPrice) ==
    PnlGeq(currentPrice, pos.averagePrice, PROFIT_TARGET_PCT)

\* mutant: the trailing stop fires whether or not its price is above the
\* average price
trailingStopTriggered_anyLevel(pos, currentPrice) ==
    /\ pos.highWaterMark # 0
    /\ pos.highWaterMark > pos.averagePrice
    /\ currentPrice * 1000 <= pos.highWaterMark * (1000 - TRAILING_STOP_PCT)

\* highWaterMark truthy and above averagePrice, currentPrice <= trailingStopPrice
\* = highWaterMark * (1 - TRAILING_STOP_PCT / 100), and trailingStopLoss > 0
trailingStopTriggered(pos, currentPrice) ==
    /\ pos.highWaterMark # 0
    /\ pos.highWaterMark > pos.averagePrice
    /\ currentPrice * 1000 <= pos.highWaterMark * (1000 - TRAILING_STOP_PCT)
    /\ RatioGt(pos.highWaterMark * (1000 - TRAILING_STOP_PCT) - pos.averagePrice * 1000,
               pos.averagePrice * 1000, 0, 1)

\* mutant: the technical sell ignores the small-loss band
technicalSellTriggered_noLossGuard(pos, currentPrice, technicalSellScore) ==
    technicalSellScore >= 8

\* technicalSellScore >= 8 && pnlPercentage > -1.0
technicalSellTriggered(pos, currentPrice, technicalSellScore) ==
    /\ technicalSellScore >= 8
    /\ PnlGt(currentPrice, pos.averagePrice, -10)

\* mutant: the SELL quantity is capped at the per-trade maximum
sellQuantity_capped(pos) == Min(pos.quantity, MAX_POSITION_SIZE)

\* quantity: position.quantity of the four SELL decisions
sellQuantity(pos) == pos.quantity

\* mutant: the trailing stop is tested before the profit target
manageExistingPosition_trailingFirst(pos, currentPrice, rsi, sma20, trend, signals, riskMetrics) ==
    LET technicalSellScore ==
            calculateTechnicalSellScore(rsi, sma20, currentPrice, trend,
                                        getBearishSignals(signals))
    IN  IF stopLossTriggered(pos, currentPrice)
        THEN Decision("SELL", sellQuantity(pos), 98, "IMMEDIATE", "STOP_LOSS")
        ELSE IF trailingStopTriggered(pos, currentPrice)
        THEN Decision("SELL", sellQuantity(pos), 90, "HIGH", "TRAILING_STOP")
        ELSE IF profitTargetReached(pos, currentPrice)
        THEN Decision("SELL", sellQuantity(pos), 95, "HIGH", "TAKE_PROFIT")
        ELSE IF technicalSellTriggered(pos, currentPrice, technicalSellScore)
        THEN Decision("SELL", sellQuantity(pos), Min(85, technicalSellScore * 10),
                      "MEDIUM", "TECHNICAL_SELL")
        ELSE Decision("HOLD", 0, 60, "LOW", "HOLDING_POSITION")

\* the field rule stands for the leading text of reasoning[0]
manageExistingPosition(pos, currentPrice, rsi, sma20, trend, signals, riskMetrics) ==
    LET technicalSellScore ==
            calculateTechnicalSellScore(rsi, sma20, currentPrice, trend,
                                        getBearishSignals(signals))
    IN  IF stopLossTriggered(pos, currentPrice)
        THEN Decision("SELL", sellQuantity(pos), 98, "IMMEDIATE", "STOP_LOSS")
        ELSE IF profitTargetReached(pos, currentPrice)
        THEN Decision("SELL", sellQuantity(pos), 95, "HIGH", "TAKE_PROFIT")
        ELSE IF trailingStopTriggered(pos, currentPrice)
        THEN Decision("SELL", sellQuantity(pos), 90, "HIGH", "TRAILING_STOP")
        ELSE IF technicalSellTriggered(pos, currentPrice, technicalSellScore)
        THEN Decision("SELL", sellQuantity(pos), Min(85, technicalSellScore * 10),
                      "MEDIUM", "TECHNICAL_SELL")
        ELSE Decision("HOLD", 0, 60, "LOW", "HOLDING_POSITION")

\* mutant: only a missing volume (0) is rejected
insufficientVolume_missingOnly(volume) == volume = 0

\* volume < this.MIN_VOLUME_THRESHOLD
insufficientVolume(volume) == volume < MIN_VOLUME_THRESHOLD

\* mutant: the entry threshold compares with >
entrySignal_strict(buyScore) == buyScore > 7

\* buyScore >= 7
entrySignal(buyScore) == buyScore >= 7

evaluateNewPosition(currentPrice, rsi, sma20, trend, signals, volatility, volume, riskMetrics) ==
    LET buyScore == calculateBuyScore(rsi, sma20, currentPrice, trend,
                                      getBullishSignals(signals), volume)
    IN  IF riskMetrics.shouldPause
        THEN Decision("HOLD", 0, 0, "LOW", "RISK_PAUSE")
        ELSE IF insufficientVolume(volume)
        THEN Decision("HOLD", 0, 0, "LOW", "INSUFFICIENT_VOLUME")
        ELSE IF entrySignal(buyScore)
        THEN Decision("BUY", calculatePositionSize(currentPrice, volatility, riskMetrics),
                      Min(95, buyScore * 10),
                      IF buyScore >= 9 THEN "HIGH" ELSE "MEDIUM", "STRONG_BUY")
        ELSE Decision("HOLD", 0, 30, "LOW", "WAITING_FOR_ENTRY")

analyze(technicalData, currentPosition, lastTrade, accountInfo) ==
    LET currentPrice == technicalData.currentPrice
        signals == technicalData.signals
        rsi == getLatestRSI(technicalData)
        sma20 == getLatestSMA(technicalData)
        volatility == calculateVolatility(technicalData)
        volume == technicalData.volume
        trend == determineTrend(technicalData)
        riskMetrics == assessRisk(currentPosition, accountInfo, lastTrade)
    IN  IF validatePosition(currentPosition, currentPrice)
        THEN manageExistingPosition(currentPosition[1], currentPrice, rsi, sma20, trend,
                                    signals, riskMetrics)
        ELSE evaluateNewPosition(currentPrice, rsi, sma20, trend, signals, volatility,
                                 volume, riskMetrics)

(***************************************************************************)
(* TradingStrategy, the second class of src/lib/strategy.js.  Its constants *)
(* carry the class name; getLatestRSI, getLatestSMA, determineTrend and    *)
(* the signal filters are the same code as above.                          *)
(***************************************************************************)
TradingStrategy_MAX_POSITION_SIZE == 200
TradingStrategy_PROFIT_TARGET_PCT == 40
TradingStrategy_STOP_LOSS_PCT == 25
TradingStrategy_RSI_OVERSOLD == 35
TradingStrategy_RSI_OVERBOUGHT == 65
TradingStrategy_COOLDOWN_MINUTES == 3

BoolCount(b) == IF b THEN 1 ELSE 0

shouldBuy(rsi, sma20, currentPrice, trend, bullishSignals, bearishSignals) ==
    BoolCount(rsi < TradingStrategy_RSI_OVERSOLD)
      + BoolCount(trend # "DOWNTREND")
      + BoolCount(Len(bullishSignals) >= 1)
      + BoolCount(Len(bearishSignals) <= 1)
      + BoolCount(currentPrice * 100 > sma20 * 99) >= 5

shouldSellOnTechnicals(rsi, sma20, currentPrice, trend, bearishSignals) ==
    BoolCount(rsi > TradingStrategy_RSI_OVERBOUGHT)
      + BoolCount(currentPrice * 100 < sma20 * 98)
      + BoolCount(Len(bearishSignals) >= 2)
      + BoolCount(trend = "DOWNTREND") >= 2

\* a number on the scale 0..100, here in hundredths
calculateConfidence(bullishSignals, bearishSignals, action) ==
    LET confidence ==
            IF action = "BUY"
            THEN Min(Len(bullishSignals) * 20 + 30, 100) - Len(bearishSignals) * 15
            ELSE IF action = "SELL"
            THEN Min(Len(bearishSignals) * 20 + 30, 100) - Len(bullishSignals) * 15
            ELSE 0
    IN  Max(20, Min(100, confidence)) * 100

TradingStrategy_calculatePositionSize(currentPrice) ==
    IF currentPrice > 4000 THEN 100
    ELSE IF currentPrice > 3000 THEN 150
    ELSE IF currentPrice > 2000 THEN 200
    ELSE TradingStrategy_MAX_POSITION_SIZE

\* timeSinceLastTrade = (Date.now() - lastTradeTime) / 60000 < COOLDOWN_MINUTES
TradingStrategy_inCooldown(trade, clock) ==
    /\ trade # Null
    /\ clock - trade[1].timestamp < TradingStrategy_COOLDOWN_MINUTES

\* the Decision of this class has no urgency field
TradingStrategy_analyze(technicalData, currentPosition, trade, clock) ==
    LET currentPrice == technicalData.currentPrice
        signals == technicalData.signals
        rsi == getLatestRSI(technicalData)
        sma20 == getLatestSMA(technicalData)
        trend == determineTrend(technicalData)
        hasPosition == currentPosition # Null /\ currentPosition[1].quantity > 0
        bullishSignals == getBullishSignals(signals)
        bearishSignals == getBearishSignals(signals)
        baseQuantity == TradingStrategy_calculatePositionSize(currentPrice)
    IN  IF TradingStrategy_inCooldown(trade, clock)
        THEN Decision("HOLD", 0, 0, "NONE", "COOLDOWN")
        ELSE IF hasPosition
        THEN (IF PnlGeq(currentPrice, currentPosition[1].averagePrice,
                        TradingStrategy_PROFIT_TARGET_PCT)
              THEN Decision("SELL", currentPosition[1].quantity, 95, "NONE", "TAKE_PROFIT")
              ELSE IF PnlLeq(currentPrice, currentPosition[1].averagePrice,
                             -TradingStrategy_STOP_LOSS_PCT)
              THEN Decision("SELL", currentPosition[1].quantity, 90, "NONE", "STOP_LOSS")
              ELSE IF shouldSellOnTechnicals(rsi, sma20, currentPrice, trend, bearishSignals)
              THEN Decision("SELL", currentPosition[1].quantity, 75, "NONE",
                            "TECHNICAL_SELL")
              ELSE Decision("HOLD", 0, 0, "NONE", "HOLDING_POSITION"))
        ELSE IF shouldBuy(rsi, sma20, currentPrice, trend, bullishSignals, bearishSignals)
        THEN Decision("BUY", baseQuantity,
                      calculateConfidence(bullishSignals, bearishSignals, "BUY"),
                      "NONE", "BUY_SIGNAL")
        ELSE Decision("HOLD", 0, 0, "NONE", "NO_BUY_SIGNAL")

Engines == {"ProfessionalTradingStrategy", "TradingStrategy"}

\* strategy.analyze(technicalData, currentPosition, lastTrade) of the class
\* that `strategy` is bound to, called at wall-clock time clock
strategy_analyze(class, technicalData, currentPosition, trade, clock) ==
    IF class = "TradingStrategy"
    THEN TradingStrategy_analyze(technicalData, currentPosition, trade, clock)
    ELSE analyze(technicalData, currentPosition, trade, Null)

(***************************************************************************)
(* TechnicalIndicators.generateSignals (src/unnamed/part_001, the class    *)
(* the handler instantiates).  The MACD crossover is an input.             *)
(***************************************************************************)
CountOf(seq, x) == Cardinality({i \in 1..Len(seq) : seq[i] = x})

generateSignals(indicators, currentPrice) ==
    LET smaSignal == IF Len(indicators.sma) > 0
                     THEN (IF currentPrice > Last(indicators.sma) THEN "BUY" ELSE "SELL")
                     ELSE "HOLD"
        rsiSignal == IF Len(indicators.rsi) > 0
                     THEN (IF Last(indicators.rsi) > 70 THEN "SELL"
                           ELSE IF Last(indicators.rsi) < 30 THEN "BUY" ELSE "HOLD")
                     ELSE "HOLD"
        macdSignal == indicators.macd
        three == <<smaSignal, rsiSignal, macdSignal>>
        buyCount == CountOf(three, "BUY")
        sellCount == CountOf(three, "SELL")
        overall == IF buyCount > sellCount THEN "BUY"
                   ELSE IF sellCount > buyCount THEN "SELL" ELSE "HOLD"
    IN  <<smaSignal, rsiSignal, macdSignal, overall>>

(***************************************************************************)
(* TechnicalIndicators.calculate (src/unnamed/part_001).  data is the       *)
(* sequence of the closes.  new SMA(20) is stable from the 20th close, new  *)
(* RSI(14) from the 15th (14 changes, smoothed as Wilder's average);        *)
(* values are rounded down to the unit.                                     *)
(***************************************************************************)
SMA_INTERVAL == 20
RSI_INTERVAL == 14
RsiScale == 10 * 100

RECURSIVE SumOver(_, _, _)
SumOver(f, a, b) == IF a > b THEN 0 ELSE f[a] + SumOver(f, a + 1, b)

\* one entry per close from which the average is stable
calculateSMA(data) ==
    [k \in 1..Max(0, Len(data) - SMA_INTERVAL + 1) |->
        SumOver(data, k, k + SMA_INTERVAL - 1) \div SMA_INTERVAL]

Gains(data) == [i \in 1..(Len(data) - 1) |-> Max(0, data[i + 1] - data[i])]

Losses(data) == [i \in 1..(Len(data) - 1) |-> Max(0, data[i] - data[i + 1])]

\* Wilder's smoothed average of the first i changes (i >= RSI_INTERVAL), in
\* 1/RsiScale
RECURSIVE wsma(_, _)
wsma(changes, i) ==
    IF i = RSI_INTERVAL
    THEN (SumOver(changes, 1, RSI_INTERVAL) * RsiScale) \div RSI_INTERVAL
    ELSE (wsma(changes, i - 1) * (RSI_INTERVAL - 1) + changes[i] * RsiScale)
            \div RSI_INTERVAL

\* 100 - 100 / (1 + avgGain / avgLoss); 100 when there is no loss
rsiValue(data, i) ==
    LET avgGain == wsma(Gains(data), i)
        avgLoss == wsma(Losses(data), i)
    IN  IF avgLoss = 0 THEN 100 ELSE (100 * avgGain) \div (avgGain + avgLoss)

calculateRSI(data) ==
    [k \in 1..Max(0, Len(data) - RSI_INTERVAL) |-> rsiValue(data, k + RSI_INTERVAL - 1)]

\* an empty history throws (Null); every other history returns the snapshot
calculate(historicalData) ==
    IF Len(historicalData) = 0 THEN Null
    ELSE Some([sma |-> calculateSMA(historicalData), rsi |-> calculateRSI(historicalData)])

(***************************************************************************)
(* EnhancedStorageService (src/lib/storage.js)                             *)
(***************************************************************************)
MIN_POSITION_QUANTITY == 10
COOLDOWN_MINUTES == 1
alpacaTicker == "ETHUSD"

Row(symbol, q, ap, hwm) ==
    [symbol |-> symbol, quantity |-> q, averagePrice |-> ap, highWaterMark |-> hwm]

\* quantity >= MIN_POSITION_QUANTITY && quantity * averagePrice >= MIN_POSITION_VALUE
meetsMinimum(q, ap) ==
    q >= MIN_POSITION_QUANTITY /\ q * ap >= MIN_POSITION_VALUE * QtyScale

IsValidRow(row) == meetsMinimum(row.quantity, row.averagePrice)

_cleanupGhostPositions(rows) == SelectSeq(rows, IsValidRow)

RowsOf(rows, symbol) == {i \in 1..Len(rows) : rows[i].symbol = symbol}

FirstRowOf(rows, symbol) ==
    rows[CHOOSE i \in RowsOf(rows, symbol) : \A j \in RowsOf(rows, symbol) : i <= j]

_removeInvalidPosition(rows, symbol) ==
    LET Other(row) == row.symbol # symbol IN SelectSeq(rows, Other)

\* the position returned, and the sheet left behind (an invalid row of the
\* symbol is removed)
getCurrentPosition(rows, symbol) ==
    IF RowsOf(rows, symbol) = {}
    THEN [position |-> Null, sheet |-> rows]
    ELSE LET row == FirstRowOf(rows, symbol)
         IN  IF IsValidRow(row)
             THEN [position |->
                     Some([quantity |-> row.quantity, averagePrice |-> row.averagePrice,
                           highWaterMark |-> IF row.highWaterMark # 0
                                             THEN row.highWaterMark
                                             ELSE row.averagePrice]),
                   sheet |-> rows]
             ELSE [position |-> Null, sheet |-> _removeInvalidPosition(rows, symbol)]

\* getAllPositions, for one symbol: positions[sym] is set by every row of
\* the symbol that meets the minimum, so the last such row stays
getAllPositions(rows, symbol) ==
    LET valid == {i \in RowsOf(rows, symbol) : IsValidRow(rows[i])}
    IN  IF valid = {} THEN Null
        ELSE LET row == rows[CHOOSE i \in valid : \A j \in valid : j <= i]
             IN  Some([quantity |-> row.quantity, averagePrice |-> row.averagePrice,
                       highWaterMark |-> IF row.highWaterMark # 0
                                         THEN row.highWaterMark
                                         ELSE row.averagePrice])

TradeRow(ts, symbol, action, q, price) ==
    [timestamp |-> ts, symbol |-> symbol, action |-> action, quantity |-> q,
     price |-> price]

_logEnhancedTrade(log, tradeResult) == Append(log, tradeResult)

\* (num / den).toFixed(...): the quotient written to the sheet, rounded to
\* the nearest price unit
toFixed(num, den) == (2 * num + den) \div (2 * den)

\* mutant: the high water mark of a BUY is the fill price
updatedRow_fillPriceAsHighWater(row, tradeResult) ==
    IF tradeResult.action = "BUY"
    THEN LET newQty == row.quantity + tradeResult.quantity
             cost == row.quantity * row.averagePrice
                       + tradeResult.quantity * tradeResult.price
             newAvg == IF newQty > 0 THEN toFixed(cost, newQty) ELSE 0
             newHighWater == tradeResult.price
         IN  IF newQty >= MIN_POSITION_QUANTITY /\ cost >= MIN_POSITION_VALUE * QtyScale
             THEN <<Row(row.symbol, newQty, newAvg, newHighWater)>>
             ELSE <<>>
    ELSE IF tradeResult.action = "SELL"
    THEN LET remaining == Max(0, row.quantity - tradeResult.quantity)
         IN  IF meetsMinimum(remaining, row.averagePrice)
             THEN <<Row(row.symbol, remaining, row.averagePrice,
                        IF row.highWaterMark # 0 THEN row.highWaterMark
                        ELSE row.averagePrice)>>
             ELSE <<>>
    ELSE <<>>

\* the row that replaces an existing row of the symbol; an empty sequence when
\* the result is under the minimum thresholds.  The minimum value is tested
\* on newQty * newAvg, the cost, before the average is written with toFixed.
updatedRow(row, tradeResult) ==
    IF tradeResult.action = "BUY"
    THEN LET newQty == row.quantity + tradeResult.quantity
             cost == row.quantity * row.averagePrice
                       + tradeResult.quantity * tradeResult.price
             newAvg == IF newQty > 0 THEN toFixed(cost, newQty) ELSE 0
             newHighWater == Max(row.highWaterMark, tradeResult.price)
         IN  IF newQty >= MIN_POSITION_QUANTITY /\ cost >= MIN_POSITION_VALUE * QtyScale
             THEN <<Row(row.symbol, newQty, newAvg, newHighWater)>>
             ELSE <<>>
    ELSE IF tradeResult.action = "SELL"
    THEN LET remaining == Max(0, row.quantity - tradeResult.quantity)
         IN  IF meetsMinimum(remaining, row.averagePrice)
             THEN <<Row(row.symbol, remaining, row.averagePrice,
                        IF row.highWaterMark # 0 THEN row.highWaterMark
                        ELSE row.averagePrice)>>
             ELSE <<>>
    ELSE <<>>

RECURSIVE rewriteRows(_, _, _)
rewriteRows(rows, symbol, tradeResult) ==
    IF rows = <<>> THEN <<>>
    ELSE (IF Head(rows).symbol = symbol THEN updatedRow(Head(rows), tradeResult)
          ELSE <<Head(rows)>>)
         \o rewriteRows(Tail(rows), symbol, tradeResult)

_updateEnhancedPosition(rows, symbol, tradeResult) ==
    LET updatedRows == rewriteRows(rows, symbol, tradeResult)
    IN  IF RowsOf(rows, symbol) = {} /\ tradeResult.action = "BUY"
           /\ meetsMinimum(tradeResult.quantity, tradeResult.price)
        THEN Append(updatedRows, Row(symbol, tradeResult.quantity, tradeResult.price,
                                     tradeResult.price))
        ELSE updatedRows

\* updatePosition: log the trade, rewrite the Positions sheet, re-read the
\* position (which removes an invalid row)
updatePosition(log, rows, symbol, tradeResult) ==
    [trades |-> _logEnhancedTrade(log, tradeResult),
     sheet |-> getCurrentPosition(_updateEnhancedPosition(rows, symbol, tradeResult),
                                  symbol).sheet]

\* StorageService of src/unnamed/part_003 (lines 463-641), the storage that
\* keeps the positions in memory: one entry per symbol, no minimum
\* thresholds, no high water mark.  The average is kept on the price unit.
StorageService_getCurrentPosition(positions, symbol) ==
    IF RowsOf(positions, symbol) = {} THEN Null
    ELSE LET row == FirstRowOf(positions, symbol)
         IN  Some([quantity |-> row.quantity, averagePrice |-> row.averagePrice,
                   highWaterMark |-> row.highWaterMark])

StorageService_updatePosition(log, positions, symbol, tradeResult) ==
    LET others == _removeInvalidPosition(positions, symbol)
        held == RowsOf(positions, symbol) # {}
        current == FirstRowOf(positions, symbol)
        currentQuantity == IF held THEN current.quantity ELSE 0
        currentCost == IF held THEN current.quantity * current.averagePrice ELSE 0
        newQuantity == currentQuantity + tradeResult.quantity
        totalCost == currentCost + tradeResult.quantity * tradeResult.price
        remainingQuantity == Max(0, currentQuantity - tradeResult.quantity)
    IN  [trades |-> Append(log, tradeResult),
         sheet |->
           IF tradeResult.action = "BUY"
           THEN Append(others, Row(symbol, newQuantity, toFixed(totalCost, newQuantity), 0))
           ELSE IF tradeResult.action = "SELL"
           THEN (IF remainingQuantity <= 0 THEN others
                 ELSE Append(others, [current EXCEPT !.quantity = remainingQuantity]))
           ELSE positions]

\* trades.slice(-10).reverse().find(trade => trade.symbol === symbol)
getLastTrade(log, symbol) ==
    LET recent == {i \in 1..Len(log) : i > Len(log) - 10 /\ log[i].symbol = symbol}
    IN  IF recent = {} THEN Null
        ELSE Some(log[CHOOSE i \in recent : \A j \in recent : j <= i])

\* the newest trade of any symbol, and new Date() < timestamp + cooldown
isInCooldown(log, clock) ==
    /\ Len(log) > 0
    /\ clock < Last(log).timestamp + COOLDOWN_MINUTES

(***************************************************************************)
(* The trading handler: src/api/trading.js, the first handler of the file. *)
(* An invocation is a slot of h; its pc is the await it has reached.       *)
(***************************************************************************)
minConfidenceRequired == 60
ConfidenceScale == 10 * 10
DEFAULT_QTY == 200

Params(method, action, autoTrade, forceAction, confirm, side) ==
    [method |-> method, action |-> action, autoTrade |-> autoTrade,
     forceAction |-> forceAction, confirm |-> confirm, side |-> side]

NoParams == Params("NONE", "NONE", FALSE, FALSE, FALSE, "NONE")

\* the orderParams of a call of placeAlpacaOrder
OrderCall(side, qty) == [side |-> side, qty |-> qty]

OrderResult(side, qty, status) == Some([side |-> side, qty |-> qty, status |-> status])

Response(code, status, kind, autoTradeText, confidence, minConfidence) ==
    [code |-> code, status |-> status, kind |-> kind, autoTrade |-> autoTradeText,
     confidence |-> confidence, minConfidenceRequired |-> minConfidence]

NoResponse == Response(0, "NONE", "NONE", "NONE", 0, 0)

ErrorResponse(code) == Response(code, "NONE", "ERROR", "NONE", 0, 0)

\* the locals of an invocation; calls, orders and writes record the calls of
\* placeAlpacaOrder it made, the orders that reached the broker, and the
\* storage writes it made
IdleSlot ==
    [pc |-> "idle", params |-> NoParams, inCooldown |-> FALSE,
     currentPosition |-> Null, lastTrade |-> Null, price |-> 0,
     decision |-> NoDecision, orderResult |-> Null, response |-> NoResponse,
     calls |-> <<>>, orders |-> <<>>, writes |-> {}]

\* inCooldown && !forceAction
cooldownBlocks_never(inCooldown, forceAction) == FALSE

cooldownBlocks(inCooldown, forceAction) == inCooldown /\ ~forceAction

\* autoTrade && decision && (action is BUY or SELL) && decision.confidence > 60
autoTradeEligible(autoTrade, d) ==
    /\ autoTrade
    /\ d.action \in {"BUY", "SELL"}
    /\ d.confidence > minConfidenceRequired * ConfidenceScale

\* decision.quantity || 0.02
orderQty(d) == IF d.quantity # 0 THEN d.quantity ELSE DEFAULT_QTY

toLowerCase(action) == IF action = "BUY" THEN "buy" ELSE IF action = "SELL" THEN "sell" ELSE action

toUpperCase(side) == IF side = "buy" THEN "BUY" ELSE IF side = "sell" THEN "SELL" ELSE side

\* autoTrade ? (orderResult ? 'executed' : HOLD ? 'holding' : 'confidence_too_low')
\*           : 'disabled'
autoTradeText(autoTrade, orderResult, d) ==
    IF ~autoTrade THEN "disabled"
    ELSE IF orderResult # Null THEN "executed"
    ELSE IF d.action = "HOLD" THEN "holding"
    ELSE "confidence_too_low"

\* the technicalData the handler builds: the indicators, the quote price and
\* the four signals; it carries neither the volume of the quote nor the
\* historical bars
handlerTechnicalData(m) ==
    [currentPrice |-> m.price, rsi |-> m.rsi, sma |-> m.sma,
     signals |-> generateSignals(m, m.price), volume |-> 0, histVol |-> NoHistory]

(***************************************************************************)
(* Inputs of the strategy specification                                    *)
(***************************************************************************)
MaxSignals == 3

PriceInputs == {0, 50, 97, 98, 99, 100, 103, 10000}
RsiInputs == {<<>>, <<0>>, <<25>>, <<35>>, <<45>>, <<65>>, <<75>>, <<85>>}
SmaInputs == {<<>>, <<0>>, <<98, 99, 100>>, <<102, 101, 100>>, <<100, 100, 100>>}
VolumeInputs == {999, 1000, 2000, 2001}
HistVolInputs == {NoHistory, <<2000>>}
SignalTypes == {"BUY", "SELL", "HOLD"}

SigRank(s) == IF s = "BUY" THEN 0 ELSE IF s = "SELL" THEN 1 ELSE 2

\* signal arrays up to MaxSignals entries, one per multiset of types
SignalInputs ==
    UNION {{s \in [1..n -> SignalTypes] :
              \A i \in 1..n : \A j \in 1..n : i < j => SigRank(s[i]) <= SigRank(s[j])}
           : n \in 0..MaxSignals}

Pos(q, ap, hwm) == Some([quantity |-> q, averagePrice |-> ap, highWaterMark |-> hwm])

PositionInputs ==
    {Null}
    \cup {Pos(q, 100, hwm) : q \in {1000, 10000}, hwm \in {0, 101, 102, 110}}
    \cup {Pos(10000, 50, 102), Pos(10000, 0, 0)}
    \cup {Pos(0, 100, 100), Pos(1, 50, 50), Pos(10, 100, 100)}

TechnicalInputs ==
    [currentPrice : PriceInputs, rsi : RsiInputs, sma : SmaInputs,
     signals : SignalInputs, volume : VolumeInputs, histVol : HistVolInputs]

\* the invocations of the trading handler that can be in progress
AllReqs == {"r1", "r2"}

\* one invocation at a time
SoloReqs == {"r1"}

NoMarket == [price |-> 0, volume |-> 0, rsi |-> <<>>, sma |-> <<>>, macd |-> "HOLD"]

\* no request reaches the handler
HandlerOff ==
    /\ market = NoMarket
    /\ trades = <<>>
    /\ sheet = <<>>
    /\ isInitialized = FALSE
    /\ reqs = {}
    /\ h = [r \in AllReqs |-> IdleSlot]
    /\ bars = <<>>
    /\ accountInfoArg = Null
    /\ args = <<>>
    /\ returned = <<>>
    /\ observedPeak = 0
    /\ urgentOrder = <<>>
    /\ callers = <<>>

\* the arguments of the call are any technicalData and any position
Init ==
    /\ pc = "idle"
    /\ td \in TechnicalInputs
    /\ position \in PositionInputs
    /\ lastTradeArg = Null
    /\ decision = NoDecision
    /\ prev = NoDecision
    /\ engine = "ProfessionalTradingStrategy"
    /\ now = 0
    /\ HandlerOff

\* the caller invokes strategy.analyze(technicalData, currentPosition)
Analyze ==
    /\ pc = "idle"
    /\ decision' = analyze(td, position, lastTradeArg, Null)
    /\ pc' = "done"
    /\ UNCHANGED <<td, position, lastTradeArg, prev, engine, now, handlerVars>>

\* the caller has consumed the Decision; the engine has kept nothing of the
\* call and can be invoked again
Return ==
    /\ pc = "done"
    /\ pc' = "idle"
    /\ decision' = NoDecision
    /\ UNCHANGED <<td, position, lastTradeArg, prev, engine, now, handlerVars>>

Next == Analyze \/ Return

Spec == Init /\ [][Next]_vars

(***************************************************************************)
(* Repeated calls with the same arguments while the clock advances         *)
(***************************************************************************)
MaxTime == 4

RepeatInputs ==
    [currentPrice : {100, 104}, rsi : {<<25>>, <<85>>},
     sma : {<<98, 99, 100>>, <<102, 101, 100>>}, signals : SignalInputs,
     volume : {2001}, histVol : {NoHistory}]

Trade(ts) == Some([timestamp |-> ts])

InitRepeat ==
    /\ pc = "idle"
    /\ td \in RepeatInputs
    /\ position \in {Null, Pos(10000, 100, 0)}
    /\ lastTradeArg \in {Null, Trade(0)}
    /\ decision = NoDecision
    /\ prev = NoDecision
    /\ engine \in Engines
    /\ now = 0
    /\ HandlerOff

\* strategy.analyze(technicalData, currentPosition, lastTradeArg) at time now
AnalyzeAt ==
    /\ pc = "idle"
    /\ decision' = strategy_analyze(engine, td, position, lastTradeArg, now)
    /\ pc' = "done"
    /\ UNCHANGED <<td, position, lastTradeArg, prev, engine, now, handlerVars>>

\* the call returns; the caller remembers what it got
ReturnAt ==
    /\ pc = "done"
    /\ pc' = "idle"
    /\ prev' = decision
    /\ decision' = NoDecision
    /\ UNCHANGED <<td, position, lastTradeArg, engine, now, handlerVars>>

\* time passes between two calls
Tick ==
    /\ pc = "idle"
    /\ now < MaxTime
    /\ now' = now + 1
    /\ UNCHANGED <<pc, td, position, lastTradeArg, decision, prev, engine, handlerVars>>

NextRepeat == AnalyzeAt \/ ReturnAt \/ Tick

SpecRepeat == InitRepeat /\ [][NextRepeat]_vars

(***************************************************************************)
(* Calls of analyze with a trade history and an account: lastTrade carries  *)
(* the number of losing trades in a row, accountInfo the trades of the day  *)
(* and the drawdown in percent                                             *)
(***************************************************************************)
LastTradeInputs ==
    {Null} \cup {Some([timestamp |-> 0, consecutiveLosses |-> n]) :
                   n \in {0, MAX_CONSECUTIVE_LOSSES}}

AccountInputs ==
    {Null} \cup {Some([dailyTrades |-> t, drawdownPct |-> dd]) :
                   t \in {0, MAX_DAILY_TRADES}, dd \in {0, MAX_DRAWDOWN_PCT}}

InitRisk ==
    /\ pc = "idle"
    /\ td \in RepeatInputs
    /\ position \in {Null, Pos(10000, 100, 0)}
    /\ lastTradeArg \in LastTradeInputs
    /\ decision = NoDecision
    /\ prev = NoDecision
    /\ engine = "ProfessionalTradingStrategy"
    /\ now = 0
    /\ market = NoMarket
    /\ trades = <<>>
    /\ sheet = <<>>
    /\ isInitialized = FALSE
    /\ reqs = {}
    /\ h = [r \in AllReqs |-> IdleSlot]
    /\ bars = <<>>
    /\ accountInfoArg \in AccountInputs
    /\ args = <<>>
    /\ returned = <<>>
    /\ observedPeak = 0
    /\ urgentOrder = <<>>
    /\ callers = <<>>

\* strategy.analyze(technicalData, currentPosition, lastTrade, accountInfo)
AnalyzeRisk ==
    /\ pc = "idle"
    /\ decision' = analyze(td, position, lastTradeArg, accountInfoArg)
    /\ pc' = "done"
    /\ UNCHANGED <<td, position, lastTradeArg, prev, engine, now, handlerVars>>

NextRisk == AnalyzeRisk \/ Return

SpecRisk == InitRisk /\ [][NextRisk]_vars

(***************************************************************************)
(* Calls of calculateBuyScore and calculatePositionSize on their own, with  *)
(* the arguments evaluateNewPosition hands them                            *)
(***************************************************************************)
CallOff ==
    /\ td = handlerTechnicalData(NoMarket)
    /\ position = Null
    /\ lastTradeArg = Null
    /\ decision = NoDecision
    /\ prev = NoDecision
    /\ engine = "ProfessionalTradingStrategy"
    /\ now = 0
    /\ market = NoMarket
    /\ trades = <<>>
    /\ sheet = <<>>
    /\ isInitialized = FALSE
    /\ reqs = {}
    /\ h = [r \in AllReqs |-> IdleSlot]
    /\ bars = <<>>
    /\ accountInfoArg = Null
    /\ observedPeak = 0
    /\ urgentOrder = <<>>
    /\ callers = <<>>

RsiArgs == {0, 29, 30, 39, 40, 49, 50, 100}
SmaArgs == {0, 100}
PriceArgs == {0, 100, 101, 102, 103}
TrendArgs == {"UPTREND", "NEUTRAL", "DOWNTREND"}
VolumeArgs == {0, MIN_VOLUME_THRESHOLD * 2, MIN_VOLUME_THRESHOLD * 2 + 1}

ScoreArgs ==
    [rsi : RsiArgs, sma20 : SmaArgs, currentPrice : PriceArgs, trend : TrendArgs,
     signals : SignalInputs, volume : VolumeArgs]

InitScore ==
    /\ pc = "idle"
    /\ args \in ScoreArgs
    /\ returned = <<>>
    /\ CallOff

\* lines 241-242 of evaluateNewPosition: the bullish signals are filtered
\* and the score computed
Score ==
    /\ pc = "idle"
    /\ returned' = Some(calculateBuyScore(args.rsi, args.sma20, args.currentPrice,
                                          args.trend, getBullishSignals(args.signals),
                                          args.volume))
    /\ pc' = "done"
    /\ UNCHANGED <<td, position, lastTradeArg, decision, prev, engine, now, market,
                   trades, sheet, isInitialized, reqs, h, bars, accountInfoArg, args,
                   observedPeak, urgentOrder, callers>>

NextScore == Score

SpecScore == InitScore /\ [][NextScore]_vars

\* volatilities in thousandths around the two ends of the multiplier band
\* (1 / (v * 1.2) = 1.5 at v = 0.5556 and = 0.5 at v = 1.6667), risk
\* multipliers in tenths, prices around the two tiers
VolatilityArgs == {0, DEFAULT_VOLATILITY, 555, 556, 1000, 1666, 1667, 5000}
MultiplierArgs == {-10, 0, 5, 8, 10, 20}
SizingPriceArgs == {0, 3000, 3001, 4000, 4001}

SizingArgs ==
    [currentPrice : SizingPriceArgs, volatility : VolatilityArgs,
     positionSizeMultiplier : MultiplierArgs]

InitSizing ==
    /\ pc = "idle"
    /\ args \in SizingArgs
    /\ returned = <<>>
    /\ CallOff

\* calculatePositionSize(currentPrice, volatility, riskMetrics); the record
\* returned keeps the volatility multiplier the call computed
Sizing ==
    /\ pc = "idle"
    /\ returned' =
         Some([size |-> calculatePositionSize(
                            args.currentPrice, args.volatility,
                            [positionSizeMultiplier |-> args.positionSizeMultiplier]),
               volAdjustment |-> volAdjustment(args.volatility)])
    /\ pc' = "done"
    /\ UNCHANGED <<td, position, lastTradeArg, decision, prev, engine, now, market,
                   trades, sheet, isInitialized, reqs, h, bars, accountInfoArg, args,
                   observedPeak, urgentOrder, callers>>

NextSizing == Sizing

SpecSizing == InitSizing /\ [][NextSizing]_vars

(***************************************************************************)
(* Requests to the trading handler                                         *)
(***************************************************************************)
MaxTrades == 3
MaxClock == 2

PriceMoves == {970, 1040}

MarketInputs ==
    [price : PriceMoves, volume : {MIN_VOLUME_THRESHOLD * 2 + 1},
     rsi : {<<25>>, <<75>>}, sma : {<<980, 990, 995>>}, macd : {"HOLD"}]

RequestInputs ==
    {Params("OPTIONS", "analyze", TRUE, FALSE, FALSE, "buy")}
    \cup {Params("GET", "analyze", a, f, c, "buy") :
            a \in BOOLEAN, f \in BOOLEAN, c \in BOOLEAN}
    \cup {Params("POST", "trade", FALSE, f, c, sd) :
            f \in BOOLEAN, c \in BOOLEAN, sd \in {"buy", "sell", "hold"}}
    \cup {Params("GET", "trade", FALSE, TRUE, FALSE, "buy")}

\* the Positions sheet as a server instance can find it: empty, a position,
\* a row under the minimum quantity, a row of another symbol
SheetInputs ==
    {<<>>, <<Row(alpacaTicker, 200, 1000, 1000)>>, <<Row(alpacaTicker, 5, 1000, 1000)>>,
     <<Row("BTCUSD", 0, 0, 0), Row(alpacaTicker, 300, 1000, 0)>>}

TradeLogInputs == {<<>>, <<TradeRow(0, alpacaTicker, "BUY", 200, 1000)>>}

InitHandler ==
    /\ pc = "idle"
    /\ td = handlerTechnicalData(NoMarket)
    /\ position = Null
    /\ lastTradeArg = Null
    /\ decision = NoDecision
    /\ prev = NoDecision
    /\ engine \in Engines
    /\ now = 0
    /\ market \in MarketInputs
    /\ trades \in TradeLogInputs
    /\ sheet \in SheetInputs
    /\ isInitialized \in BOOLEAN
    /\ reqs = SoloReqs
    /\ h = [r \in AllReqs |-> IdleSlot]
    /\ bars = <<>>
    /\ accountInfoArg = Null
    /\ args = <<>>
    /\ returned = <<>>
    /\ observedPeak = 0
    /\ urgentOrder = <<>>
    /\ callers = <<>>

Set(r, slot) == h' = [h EXCEPT ![r] = slot]

Finish(r, response) == Set(r, [h[r] EXCEPT !.pc = "done", !.response = response])

\* lines 14-41: the request arrives; OPTIONS is answered at once; a missing
\* Google Sheets variable (validateGoogleSheetsConfig) is a 500
HStartFrom(r, requests) ==
    /\ r \in reqs
    /\ h[r].pc = "idle"
    /\ Len(trades) + 2 <= MaxTrades
    /\ \E p \in requests, configured \in BOOLEAN :
         LET slot == [IdleSlot EXCEPT !.params = p]
         IN  IF p.method = "OPTIONS"
             THEN Set(r, [slot EXCEPT !.pc = "done", !.response = ErrorResponse(204)])
             ELSE IF ~configured
             THEN Set(r, [slot EXCEPT !.pc = "done", !.response = ErrorResponse(500)])
             ELSE Set(r, [slot EXCEPT !.pc = "health"])
    /\ UNCHANGED <<stratVars, bars, accountInfoArg, callVars, engine, now, market, trades, sheet, isInitialized, reqs>>

HStart(r) == HStartFrom(r, RequestInputs)

\* lines 43-54: storage.healthCheck(), whose initialize() removes the ghost
\* rows the first time this server instance touches the storage
HHealthCheck(r) ==
    /\ r \in reqs
    /\ h[r].pc = "health"
    /\ \E healthy \in BOOLEAN :
         IF ~healthy
         THEN /\ Finish(r, ErrorResponse(500))
              /\ UNCHANGED <<sheet, isInitialized>>
         ELSE LET cleaned == IF isInitialized THEN sheet
                             ELSE _cleanupGhostPositions(sheet)
              IN  /\ sheet' = cleaned
                  /\ isInitialized' = TRUE
                  /\ Set(r, [h[r] EXCEPT !.pc = "cooldown",
                               !.writes = IF cleaned # sheet THEN @ \cup {"cleanup"}
                                          ELSE @])
    /\ UNCHANGED <<stratVars, bars, accountInfoArg, callVars, engine, now, market, trades, reqs>>

\* lines 56-71: storage.isInCooldown(), false when the Trades sheet cannot be
\* read; the COOLDOWN answer
HCheckCooldown(r) ==
    /\ r \in reqs
    /\ h[r].pc = "cooldown"
    /\ \E readable \in BOOLEAN :
         LET inCooldown == readable /\ isInCooldown(trades, now)
             slot == [h[r] EXCEPT !.inCooldown = inCooldown]
         IN  IF cooldownBlocks(inCooldown, h[r].params.forceAction)
             THEN Set(r, [slot EXCEPT !.pc = "done",
                            !.response = Response(200, "COOLDOWN", "COOLDOWN",
                                                  "disabled", 0, 0)])
             ELSE Set(r, [slot EXCEPT !.pc = "load"])
    /\ UNCHANGED <<stratVars, bars, accountInfoArg, callVars, engine, now, market, trades, sheet, isInitialized, reqs>>

\* lines 73-76: getCurrentPosition (an invalid row is removed) and getLastTrade
HLoad(r) ==
    /\ r \in reqs
    /\ h[r].pc = "load"
    /\ LET got == getCurrentPosition(sheet, alpacaTicker)
       IN  /\ sheet' = got.sheet
           /\ Set(r, [h[r] EXCEPT !.pc = "analyze",
                        !.currentPosition = got.position,
                        !.lastTrade = getLastTrade(trades, alpacaTicker),
                        !.writes = IF got.sheet # sheet THEN @ \cup {"removeInvalid"}
                                   ELSE @])
    /\ UNCHANGED <<stratVars, bars, accountInfoArg, callVars, engine, now, market, trades, isInitialized, reqs>>

\* lines 86-116: quote and bars from Yahoo (a failed fetch is a 500),
\* indicators, signals, strategy.analyze
HAnalyze(r) ==
    /\ r \in reqs
    /\ h[r].pc = "analyze"
    /\ \E fetched \in BOOLEAN :
         IF ~fetched
         THEN Finish(r, ErrorResponse(500))
         ELSE Set(r, [h[r] EXCEPT !.pc = "auto", !.price = market.price,
                        !.decision = strategy_analyze(engine, handlerTechnicalData(market),
                                                      h[r].currentPosition,
                                                      h[r].lastTrade, now)])
    /\ UNCHANGED <<stratVars, bars, accountInfoArg, callVars, engine, now, market, trades, sheet, isInitialized, reqs>>

\* alpacaService.placeOrder: the account cannot be read, is blocked, or the
\* broker refuses (reached = FALSE); without confirm the answer is a
\* simulation and nothing reaches the broker
placeAlpacaOrder(side, qty, confirm) ==
    IF ~confirm THEN OrderResult(side, qty, "simulated")
    ELSE OrderResult(side, qty, "accepted")

tradeResultOf(action, qty, price, clock) == TradeRow(clock, alpacaTicker, action, qty, price)

\* storage.updatePosition as the handler sees it: completed, failed before
\* anything was written, or failed after the trade was logged
UpdateOutcomes == {"updated", "failed", "loggedOnly"}

StorageAfter(outcome, tradeResult) ==
    IF outcome = "updated"
    THEN updatePosition(trades, sheet, alpacaTicker, tradeResult)
    ELSE IF outcome = "loggedOnly"
    THEN [trades |-> _logEnhancedTrade(trades, tradeResult), sheet |-> sheet]
    ELSE [trades |-> trades, sheet |-> sheet]

WritesAfter(outcome, writes) ==
    IF outcome = "updated" THEN writes \cup {"trade", "position"}
    ELSE IF outcome = "loggedOnly" THEN writes \cup {"trade"}
    ELSE writes

\* mutant: a simulated order is recorded like an executed one
orderExecuted_always(orderResult) == orderResult # Null

\* orderResult && orderResult.status !== 'simulated'
orderExecuted(orderResult) == orderResult # Null /\ orderResult[1].status # "simulated"

\* lines 118-138: the automatic order
HAutoTrade(r) ==
    /\ r \in reqs
    /\ h[r].pc = "auto"
    /\ IF ~autoTradeEligible(h[r].params.autoTrade, h[r].decision)
       THEN Set(r, [h[r] EXCEPT !.pc = "respond"])
       ELSE \E reached \in BOOLEAN :
              LET result == placeAlpacaOrder(toLowerCase(h[r].decision.action),
                                             orderQty(h[r].decision), h[r].params.confirm)
                  called == [h[r] EXCEPT !.calls =
                               Append(@, OrderCall(toLowerCase(h[r].decision.action),
                                                   orderQty(h[r].decision)))]
              IN  IF ~reached
                  THEN Set(r, [called EXCEPT !.pc = "respond"])
                  ELSE IF ~orderExecuted(result)
                  THEN Set(r, [called EXCEPT !.pc = "respond", !.orderResult = result])
                  ELSE Set(r, [called EXCEPT !.pc = "autoUpdate", !.orderResult = result,
                                 !.orders = Append(@, result[1])])
    /\ UNCHANGED <<stratVars, bars, accountInfoArg, callVars, engine, now, market, trades, sheet, isInitialized, reqs>>

\* lines 140-158: the executed order is recorded; a failure is logged and the
\* handler goes on to the response
HAutoUpdate(r) ==
    /\ r \in reqs
    /\ h[r].pc = "autoUpdate"
    /\ \E outcome \in UpdateOutcomes :
         LET after == StorageAfter(outcome,
                        tradeResultOf(h[r].decision.action, orderQty(h[r].decision),
                                      h[r].price, now))
         IN  /\ trades' = after.trades
             /\ sheet' = after.sheet
             /\ Set(r, [h[r] EXCEPT !.pc = "respond",
                          !.writes = WritesAfter(outcome, @)])
    /\ UNCHANGED <<stratVars, bars, accountInfoArg, callVars, engine, now, market, isInitialized, reqs>>

IsManualTrade(p) == p.action = "trade" /\ p.method = "POST"

\* lines 161-211 and 271-298: the analysis response and the default response
HRespond(r) ==
    /\ r \in reqs
    /\ h[r].pc = "respond"
    /\ ~IsManualTrade(h[r].params)
    /\ IF h[r].params.action = "analyze"
       THEN Finish(r, Response(200, "NONE", "ANALYSIS",
                               autoTradeText(h[r].params.autoTrade, h[r].orderResult,
                                             h[r].decision),
                               h[r].decision.confidence,
                               minConfidenceRequired * ConfidenceScale))
       ELSE Finish(r, Response(200, "NONE", "DEFAULT", "NONE", 0,
                               minConfidenceRequired * ConfidenceScale))
    /\ UNCHANGED <<stratVars, bars, accountInfoArg, callVars, engine, now, market, trades, sheet, isInitialized, reqs>>

\* lines 213-232: the manual order; a failed order is the 500 of the catch
HManualTrade(r) ==
    /\ r \in reqs
    /\ h[r].pc = "respond"
    /\ IsManualTrade(h[r].params)
    /\ IF h[r].params.side \notin {"buy", "sell"}
       THEN Finish(r, ErrorResponse(400))
       ELSE \E reached \in BOOLEAN :
              LET result == placeAlpacaOrder(h[r].params.side, DEFAULT_QTY,
                                             h[r].params.confirm)
                  called == [h[r] EXCEPT !.calls =
                               Append(@, OrderCall(h[r].params.side, DEFAULT_QTY))]
              IN  IF ~reached
                  THEN Set(r, [called EXCEPT !.pc = "done",
                                 !.response = ErrorResponse(500)])
                  ELSE IF ~orderExecuted(result)
                  THEN Set(r, [called EXCEPT !.pc = "done", !.orderResult = result,
                                 !.response = Response(200, "NONE", "TRADE", "NONE", 0, 0)])
                  ELSE Set(r, [called EXCEPT !.pc = "manualUpdate", !.orderResult = result,
                                 !.orders = Append(@, result[1])])
    /\ UNCHANGED <<stratVars, bars, accountInfoArg, callVars, engine, now, market, trades, sheet, isInitialized, reqs>>

\* lines 234-269: the manual trade is recorded; a failure is the 500 of the catch
HManualUpdate(r) ==
    /\ r \in reqs
    /\ h[r].pc = "manualUpdate"
    /\ \E outcome \in UpdateOutcomes :
         LET after == StorageAfter(outcome,
                        tradeResultOf(toUpperCase(h[r].params.side), DEFAULT_QTY,
                                      h[r].price, now))
         IN  /\ trades' = after.trades
             /\ sheet' = after.sheet
             /\ Set(r, [h[r] EXCEPT !.pc = "done",
                          !.writes = WritesAfter(outcome, @),
                          !.response = IF outcome = "updated"
                                       THEN Response(200, "NONE", "TRADE", "NONE", 0, 0)
                                       ELSE ErrorResponse(500)])
    /\ UNCHANGED <<stratVars, bars, accountInfoArg, callVars, engine, now, market, isInitialized, reqs>>

\* the response is sent; the invocation is over
HFinish(r) ==
    /\ r \in reqs
    /\ h[r].pc = "done"
    /\ Set(r, IdleSlot)
    /\ UNCHANGED <<stratVars, bars, accountInfoArg, callVars, engine, now, market, trades, sheet, isInitialized, reqs>>

\* time passes, also while an invocation is suspended at an await
HTick ==
    /\ reqs # {}
    /\ now < MaxClock
    /\ now' = now + 1
    /\ UNCHANGED <<stratVars, engine, handlerVars>>

\* the market moves between two requests
MarketMove ==
    /\ reqs # {}
    /\ \A r \in reqs : h[r].pc = "idle"
    /\ \E m \in MarketInputs : m # market /\ market' = m
    /\ UNCHANGED <<stratVars, bars, accountInfoArg, callVars, engine, now, trades, sheet, isInitialized, reqs, h>>

NextHandler ==
    \/ \E r \in AllReqs :
         \/ HStart(r)
         \/ HHealthCheck(r)
         \/ HCheckCooldown(r)
         \/ HLoad(r)
         \/ HAnalyze(r)
         \/ HAutoTrade(r)
         \/ HAutoUpdate(r)
         \/ HRespond(r)
         \/ HManualTrade(r)
         \/ HManualUpdate(r)
         \/ HFinish(r)
    \/ HTick
    \/ MarketMove

SpecHandler == InitHandler /\ [][NextHandler]_vars

(***************************************************************************)
(* Two invocations of the trading handler at once, on a flat store with no *)
(* trade in the log: analysis requests with autoTrade                      *)
(***************************************************************************)
AutoRequests == {Params("GET", "analyze", TRUE, FALSE, c, "buy") : c \in BOOLEAN}

InitConcurrent ==
    /\ pc = "idle"
    /\ td = handlerTechnicalData(NoMarket)
    /\ position = Null
    /\ lastTradeArg = Null
    /\ decision = NoDecision
    /\ prev = NoDecision
    /\ engine \in Engines
    /\ now = 0
    /\ market \in MarketInputs
    /\ trades = <<>>
    /\ sheet = <<>>
    /\ isInitialized \in BOOLEAN
    /\ reqs = AllReqs
    /\ h = [r \in AllReqs |-> IdleSlot]
    /\ bars = <<>>
    /\ accountInfoArg = Null
    /\ args = <<>>
    /\ returned = <<>>
    /\ observedPeak = 0
    /\ urgentOrder = <<>>
    /\ callers = <<>>

NextConcurrent ==
    \E r \in AllReqs :
        \/ HStartFrom(r, AutoRequests)
        \/ HHealthCheck(r)
        \/ HCheckCooldown(r)
        \/ HLoad(r)
        \/ HAnalyze(r)
        \/ HAutoTrade(r)
        \/ HAutoUpdate(r)
        \/ HRespond(r)
        \/ HFinish(r)

SpecConcurrent == InitConcurrent /\ [][NextConcurrent]_vars

(***************************************************************************)
(* From the bars to the Decision: lines 90-114 of the handler on their own, *)
(* getHistoricalData, indicators.calculate, strategy.analyze               *)
(***************************************************************************)
MaxBars == 21

\* closes that rise by 2 a bar, fall by 2 a bar, or alternate
Series(kind, n) ==
    [i \in 1..n |-> IF kind = "rising" THEN 100 + 2 * i
                    ELSE IF kind = "falling" THEN 200 - 2 * i
                    ELSE 100 + 2 * (i % 2)]

BarInputs == {Series(kind, n) : kind \in {"rising", "falling", "zigzag"}, n \in 0..MaxBars}

QuoteInputs == {98, 100, 150}

InitIndicators ==
    /\ pc = "idle"
    /\ td = handlerTechnicalData(NoMarket)
    /\ position \in {Null, Pos(10000, 100, 0)}
    /\ lastTradeArg = Null
    /\ decision = NoDecision
    /\ prev = NoDecision
    /\ engine = "ProfessionalTradingStrategy"
    /\ now = 0
    /\ market \in [price : QuoteInputs, volume : {MIN_VOLUME_THRESHOLD * 2 + 1},
                    rsi : {<<>>}, sma : {<<>>}, macd : {"HOLD"}]
    /\ trades = <<>>
    /\ sheet = <<>>
    /\ isInitialized = FALSE
    /\ reqs = {}
    /\ h = [r \in AllReqs |-> IdleSlot]
    /\ bars \in BarInputs
    /\ accountInfoArg = Null
    /\ args = <<>>
    /\ returned = <<>>
    /\ observedPeak = 0
    /\ urgentOrder = <<>>
    /\ callers = <<>>

\* indicators.calculate(historicalData): it throws, or the technicals are built
Calculate ==
    /\ pc = "idle"
    /\ LET technicals == calculate(bars)
       IN  IF technicals = Null
           THEN pc' = "failed" /\ UNCHANGED market
           ELSE /\ pc' = "calculated"
                /\ market' = [market EXCEPT !.sma = technicals[1].sma,
                                            !.rsi = technicals[1].rsi]
    /\ UNCHANGED <<td, position, lastTradeArg, decision, prev, engine, now,
                   trades, sheet, isInitialized, reqs, h, bars, accountInfoArg, callVars>>

\* strategy.analyze({...technicals, currentPrice, signals}, currentPosition)
Decide ==
    /\ pc = "calculated"
    /\ td' = handlerTechnicalData(market)
    /\ decision' = analyze(handlerTechnicalData(market), position, lastTradeArg, Null)
    /\ pc' = "done"
    /\ UNCHANGED <<position, lastTradeArg, prev, engine, now, handlerVars>>

\* the request is over, by the response or by the error
Finished ==
    /\ pc \in {"done", "failed"}
    /\ pc' = "idle"
    /\ td' = handlerTechnicalData(NoMarket)
    /\ decision' = NoDecision
    /\ market' = [market EXCEPT !.sma = <<>>, !.rsi = <<>>]
    /\ UNCHANGED <<position, lastTradeArg, prev, engine, now,
                   trades, sheet, isInitialized, reqs, h, bars, accountInfoArg, callVars>>

NextIndicators == Calculate \/ Decide \/ Finished

SpecIndicators == InitIndicators /\ [][NextIndicators]_vars

(***************************************************************************)
(* Calls of storage.updatePosition one after the other, on a store that    *)
(* starts empty.  engine is here the storage class the caller is bound to. *)
(***************************************************************************)
StorageClasses == {"EnhancedStorageService", "StorageService"}

StoreSymbols == {alpacaTicker, "BTCUSD"}

\* quantities under the minimum quantity (0.0005), under the minimum value
\* at these prices (0.005) and above both (0.01); positive BUY prices
StoreTrades ==
    {TradeRow(0, sym, "BUY", q, p) : sym \in StoreSymbols, q \in {5, 50, 100},
                                     p \in {1000, 1003}}
    \cup {TradeRow(0, sym, "SELL", q, 1000) : sym \in StoreSymbols, q \in {5, 50, 100}}

storage_getCurrentPosition(class, rows, symbol) ==
    IF class = "StorageService" THEN StorageService_getCurrentPosition(rows, symbol)
    ELSE getCurrentPosition(rows, symbol).position

storage_updatePosition(class, log, rows, symbol, tradeResult) ==
    IF class = "StorageService"
    THEN StorageService_updatePosition(log, rows, symbol, tradeResult)
    ELSE updatePosition(log, rows, symbol, tradeResult)

InitStore ==
    /\ pc = "idle"
    /\ td = handlerTechnicalData(NoMarket)
    /\ position = Null
    /\ lastTradeArg = Null
    /\ decision = NoDecision
    /\ prev = NoDecision
    /\ engine \in StorageClasses
    /\ now = 0
    /\ market = NoMarket
    /\ trades = <<>>
    /\ sheet = <<>>
    /\ isInitialized \in BOOLEAN
    /\ reqs = {}
    /\ h = [r \in AllReqs |-> IdleSlot]
    /\ bars = <<>>
    /\ accountInfoArg = Null
    /\ args = <<>>
    /\ returned = <<>>
    /\ observedPeak = 0
    /\ urgentOrder = <<>>
    /\ callers = <<>>

\* await storage.updatePosition(symbol, tradeResult), run to its end; args
\* keeps the call and the position the store held before it, returned what
\* getCurrentPosition answers after it
UpdatePosition ==
    /\ Len(trades) < MaxTrades
    /\ \E tradeResult \in StoreTrades :
         LET symbol == tradeResult.symbol
             initialized == IF isInitialized \/ engine = "StorageService" THEN sheet
                            ELSE _cleanupGhostPositions(sheet)
             after == storage_updatePosition(engine, trades, initialized, symbol,
                                             tradeResult)
         IN  /\ args' = Some([trade |-> tradeResult,
                              before |-> storage_getCurrentPosition(engine, initialized,
                                                                    symbol)])
             /\ trades' = after.trades
             /\ sheet' = after.sheet
             /\ returned' = Some(storage_getCurrentPosition(engine, after.sheet, symbol))
    /\ isInitialized' = TRUE
    /\ UNCHANGED <<stratVars, engine, now, market, reqs, h, bars, accountInfoArg,
                   observedPeak, urgentOrder, callers>>

NextStore == UpdatePosition

SpecStore == InitStore /\ [][NextStore]_vars

(***************************************************************************)
(* EnhancedStorageService.updatePosition await by await: the trade is      *)
(* appended, the Positions sheet is read, cleared and rewritten, and the   *)
(* position is read back.  Two callers can be inside it at once; a call of *)
(* the Sheets API can fail.                                                *)
(***************************************************************************)
StoreCallers == {"u1", "u2"}

StepTrades ==
    {TradeRow(0, alpacaTicker, "BUY", 100, 1000),
     TradeRow(0, alpacaTicker, "SELL", 100, 1000),
     TradeRow(0, "BTCUSD", "BUY", 100, 1000)}

StepSheets == {<<>>, <<Row(alpacaTicker, 200, 1000, 1000)>>}

IdleCaller == [pc |-> "idle", trade |-> Null, updatedRows |-> <<>>]

\* args keeps the store as it was before the calls
InitSteps ==
    /\ pc = "idle"
    /\ td = handlerTechnicalData(NoMarket)
    /\ position = Null
    /\ lastTradeArg = Null
    /\ decision = NoDecision
    /\ prev = NoDecision
    /\ engine = "EnhancedStorageService"
    /\ now = 0
    /\ market = NoMarket
    /\ trades = <<>>
    /\ sheet \in StepSheets
    /\ isInitialized = TRUE
    /\ reqs = {}
    /\ h = [r \in AllReqs |-> IdleSlot]
    /\ bars = <<>>
    /\ accountInfoArg = Null
    /\ args = Some([trades |-> trades, sheet |-> sheet])
    /\ returned = <<>>
    /\ observedPeak = 0
    /\ urgentOrder = <<>>
    /\ callers = [c \in StoreCallers |-> IdleCaller]

At(c, label) == callers[c].pc = label

Goto(c, label) == callers' = [callers EXCEPT ![c].pc = label]

\* updatePosition(symbol, tradeResult) is called
UBegin(c) ==
    /\ At(c, "idle")
    /\ \E t \in StepTrades :
         callers' = [callers EXCEPT ![c] = [IdleCaller EXCEPT !.pc = "log",
                                                              !.trade = Some(t)]]
    /\ UNCHANGED <<stratVars, engine, now, market, trades, sheet, isInitialized, reqs, h,
                   bars, accountInfoArg, args, returned, observedPeak, urgentOrder>>

\* _logEnhancedTrade: values.append on the Trades sheet
ULog(c) ==
    /\ At(c, "log")
    /\ trades' = _logEnhancedTrade(trades, callers[c].trade[1])
    /\ Goto(c, "read")
    /\ UNCHANGED <<stratVars, engine, now, market, sheet, isInitialized, reqs, h,
                   bars, accountInfoArg, args, returned, observedPeak, urgentOrder>>

\* _updateEnhancedPosition: values.get, then updatedRows is computed
URead(c) ==
    /\ At(c, "read")
    /\ callers' = [callers EXCEPT ![c].pc = "clear",
                     ![c].updatedRows =
                        _updateEnhancedPosition(sheet, callers[c].trade[1].symbol,
                                                callers[c].trade[1])]
    /\ UNCHANGED <<stratVars, engine, now, market, trades, sheet, isInitialized, reqs, h,
                   bars, accountInfoArg, args, returned, observedPeak, urgentOrder>>

\* values.clear on A2:G
UClear(c) ==
    /\ At(c, "clear")
    /\ sheet' = <<>>
    /\ Goto(c, "write")
    /\ UNCHANGED <<stratVars, engine, now, market, trades, isInitialized, reqs, h,
                   bars, accountInfoArg, args, returned, observedPeak, urgentOrder>>

\* values.update on A2:G(n+1), skipped when updatedRows is empty: the first
\* n rows are overwritten, rows below them stay
UWrite(c) ==
    /\ At(c, "write")
    /\ LET updatedRows == callers[c].updatedRows
       IN  sheet' = IF updatedRows = <<>> THEN sheet
                    ELSE updatedRows \o SubSeq(sheet, Len(updatedRows) + 1, Len(sheet))
    /\ Goto(c, "verify")
    /\ UNCHANGED <<stratVars, engine, now, market, trades, isInitialized, reqs, h,
                   bars, accountInfoArg, args, returned, observedPeak, urgentOrder>>

\* getCurrentPosition(symbol), which removes an invalid row of the symbol
\* and swallows its own errors
UVerify(c) ==
    /\ At(c, "verify")
    /\ sheet' = getCurrentPosition(sheet, callers[c].trade[1].symbol).sheet
    /\ Goto(c, "done")
    /\ UNCHANGED <<stratVars, engine, now, market, trades, isInitialized, reqs, h,
                   bars, accountInfoArg, args, returned, observedPeak, urgentOrder>>

\* the Sheets API call the caller is about to make throws: updatePosition
\* logs the error and rethrows it
UFail(c) ==
    /\ callers[c].pc \in {"log", "read", "clear", "write"}
    /\ Goto(c, "failed")
    /\ UNCHANGED <<stratVars, engine, now, market, trades, sheet, isInitialized, reqs, h,
                   bars, accountInfoArg, args, returned, observedPeak, urgentOrder>>

NextSteps ==
    \E c \in StoreCallers :
        \/ UBegin(c)
        \/ ULog(c)
        \/ URead(c)
        \/ UClear(c)
        \/ UWrite(c)
        \/ UVerify(c)
        \/ UFail(c)

SpecSteps == InitSteps /\ [][NextSteps]_vars

(***************************************************************************)
(* The monitoring handler (src/api/monitor.js) on the position of          *)
(* alpacaTicker: a run loads the position, monitorPosition analyses it,     *)
(* executeUrgentAction sells; the market moves between two runs.           *)
(***************************************************************************)
MonitorPrices == {970, 1000, 1005, 1020}

MonitorMarkets ==
    [price : MonitorPrices, volume : {0, MIN_VOLUME_THRESHOLD * 2 + 1},
     rsi : {<<45>>, <<75>>}, sma : {<<980, 990, 995>>}, macd : {"HOLD"}]

\* the Positions sheet: empty, a position whose high water mark is missing,
\* at the average price or above it, and a row under the minimum quantity
MonitorSheets ==
    {<<>>, <<Row(alpacaTicker, 5, 1000, 1000)>>}
    \cup {<<Row(alpacaTicker, 200, 1000, hwm)>> : hwm \in {0, 1000, 1030}}

InitMonitor ==
    /\ pc = "idle"
    /\ td = handlerTechnicalData(NoMarket)
    /\ position = Null
    /\ lastTradeArg = Null
    /\ decision = NoDecision
    /\ prev = NoDecision
    /\ engine \in Engines
    /\ now = 0
    /\ market \in MonitorMarkets
    /\ trades \in TradeLogInputs
    /\ sheet \in MonitorSheets
    /\ isInitialized \in BOOLEAN
    /\ reqs = {}
    /\ h = [r \in AllReqs |-> IdleSlot]
    /\ bars = <<>>
    /\ accountInfoArg = Null
    /\ args = <<>>
    /\ returned = <<>>
    /\ observedPeak = 0
    /\ urgentOrder = <<>>
    /\ callers = <<>>

\* position.quantity >= 0.001 && position.quantity * currentPrice >= 10
hasValidPosition(pos, currentPrice) ==
    /\ pos.quantity >= MIN_POSITION_QUANTITY
    /\ pos.quantity * currentPrice >= MIN_POSITION_VALUE * QtyScale

\* Math.max(position.highWaterMark || position.averagePrice, currentPrice)
newHighWaterMark(pos, currentPrice) ==
    Max(IF pos.highWaterMark # 0 THEN pos.highWaterMark ELSE pos.averagePrice,
        currentPrice)

\* the technicalData monitorPosition builds: no signals, the volume of the
\* quote, the historical bars
monitorTechnicalData(m, histVol) ==
    [currentPrice |-> m.price, rsi |-> m.rsi, sma |-> m.sma, signals |-> <<>>,
     volume |-> m.volume, histVol |-> histVol]

\* lines 31-64 and 130-205: the health check (with the ghost cleanup of a
\* fresh server instance), the requested cleanup, getAllPositions, and
\* monitorPosition up to the Decision
MonitorPosition ==
    /\ pc = "idle"
    /\ Len(trades) < MaxTrades
    /\ \E healthy \in BOOLEAN, cleanupGhosts \in BOOLEAN, histVol \in HistVolInputs :
         IF ~healthy
         THEN UNCHANGED <<pc, td, position, lastTradeArg, decision, sheet,
                          isInitialized, observedPeak>>
         ELSE LET initialized == IF isInitialized THEN sheet
                                 ELSE _cleanupGhostPositions(sheet)
                  cleaned == IF cleanupGhosts THEN _cleanupGhostPositions(initialized)
                             ELSE initialized
                  loaded == getAllPositions(cleaned, alpacaTicker)
              IN  /\ sheet' = cleaned
                  /\ isInitialized' = TRUE
                  /\ IF loaded = Null \/ ~hasValidPosition(loaded[1], market.price)
                     THEN UNCHANGED <<pc, td, position, lastTradeArg, decision,
                                      observedPeak>>
                     ELSE /\ td' = monitorTechnicalData(market, histVol)
                          /\ position' =
                               Some([loaded[1] EXCEPT !.highWaterMark =
                                       newHighWaterMark(loaded[1], market.price)])
                          /\ lastTradeArg' = getLastTrade(trades, alpacaTicker)
                          /\ decision' = strategy_analyze(engine, td', position',
                                                          lastTradeArg', now)
                          /\ observedPeak' = Max(observedPeak, market.price)
                          /\ pc' = "analysed"
    /\ urgentOrder' = Null
    /\ UNCHANGED <<prev, engine, now, market, trades, reqs, h, bars, accountInfoArg,
                   args, returned, callers>>

\* mutant: every SELL is urgent
isUrgent_anySell(d) == d.action = "SELL"

\* decision.action === 'SELL' && urgency IMMEDIATE or CRITICAL
isUrgent(d) == d.action = "SELL" /\ d.urgency \in {"IMMEDIATE", "CRITICAL"}

\* lines 78-128 and 302-369: executeUrgentAction sells at once (confirm is
\* true) and records the trade at price 0; then the response.  The peak is
\* that of the open position: it is forgotten when the position is closed.
MonitorFinish ==
    /\ pc = "analysed"
    /\ \E reached \in BOOLEAN, outcome \in UpdateOutcomes :
         LET qty == Min(decision.quantity, position[1].quantity)
             ordered == /\ isUrgent(decision)
                        /\ position[1].quantity >= decision.quantity
             sold == ordered /\ reached
             after == IF sold
                      THEN StorageAfter(outcome, tradeResultOf("SELL", qty, 0, now))
                      ELSE [trades |-> trades, sheet |-> sheet]
         IN  /\ trades' = after.trades
             /\ sheet' = after.sheet
             /\ observedPeak' = IF getAllPositions(after.sheet, alpacaTicker) = Null
                                THEN 0 ELSE observedPeak
             /\ urgentOrder' =
                  IF ordered
                  THEN Some([call |-> OrderCall(toLowerCase(decision.action), qty),
                             position |-> position[1], currentPrice |-> td.currentPrice,
                             decision |-> decision])
                  ELSE Null
    /\ pc' = "idle"
    /\ decision' = NoDecision
    /\ UNCHANGED <<td, position, lastTradeArg, prev, engine, now, market,
                   isInitialized, reqs, h, bars, accountInfoArg, args, returned, callers>>

\* the market moves between two runs
MonitorMarketMove ==
    /\ pc = "idle"
    /\ \E m \in MonitorMarkets : m # market /\ market' = m
    /\ UNCHANGED <<stratVars, engine, now, trades, sheet, isInitialized, reqs, h, bars,
                   accountInfoArg, callVars>>

NextMonitor == MonitorPosition \/ MonitorFinish \/ MonitorMarketMove

SpecMonitor == InitMonitor /\ [][NextMonitor]_vars

(***************************************************************************)
(* Properties of ProfessionalTradingStrategy.analyze, checked under Spec   *)
(***************************************************************************)
Done == pc = "done"

\* the mode analyze selected for the call (validatePosition on its arguments)
HoldingMode == Done /\ validatePosition(position, td.currentPrice)
FlatMode == Done /\ ~validatePosition(position, td.currentPrice)

ArgPos == position[1]

\* unrealized P&L% <= -k/10, stated on the arguments
LossAtLeast(k) ==
    /\ position # Null
    /\ ArgPos.averagePrice > 0
    /\ (td.currentPrice - ArgPos.averagePrice) * 1000 <= -k * ArgPos.averagePrice

\* unrealized P&L% >= k/10, stated on the arguments (an averagePrice of 0
\* with a positive price is a P&L of +Infinity)
GainAtLeast(k) ==
    /\ position # Null
    /\ \/ /\ ArgPos.averagePrice > 0
          /\ (td.currentPrice - ArgPos.averagePrice) * 1000 >= k * ArgPos.averagePrice
       \/ /\ ArgPos.averagePrice = 0
          /\ td.currentPrice > 0

\* unrealized P&L% > -k/10
LossBelow(k) ==
    /\ position # Null
    /\ \/ /\ ArgPos.averagePrice > 0
          /\ (td.currentPrice - ArgPos.averagePrice) * 1000 > -k * ArgPos.averagePrice
       \/ /\ ArgPos.averagePrice = 0
          /\ td.currentPrice > 0

\* the trailing-stop condition of the specification
TrailingCondition ==
    /\ position # Null
    /\ ArgPos.highWaterMark > ArgPos.averagePrice
    /\ td.currentPrice * 1000 <= ArgPos.highWaterMark * (1000 - TRAILING_STOP_PCT)
    /\ ArgPos.highWaterMark * (1000 - TRAILING_STOP_PCT) > ArgPos.averagePrice * 1000

SellScoreOf(t) ==
    calculateTechnicalSellScore(getLatestRSI(t), getLatestSMA(t), t.currentPrice,
                                determineTrend(t), getBearishSignals(t.signals))

BuyScoreOf(t) ==
    calculateBuyScore(getLatestRSI(t), getLatestSMA(t), t.currentPrice,
                      determineTrend(t), getBullishSignals(t.signals), t.volume)

TechnicalCondition == SellScoreOf(td) >= 8 /\ LossBelow(10)

\* C1: in HOLDING mode a P&L at or below -STOP_LOSS_PCT always returns SELL of
\* the full quantity with confidence 0.98 and urgency IMMEDIATE, whatever the
\* indicators and the high water mark are
C1_StopLoss ==
    (HoldingMode /\ LossAtLeast(STOP_LOSS_PCT)) =>
        /\ decision.action = "SELL"
        /\ decision.quantity = ArgPos.quantity
        /\ decision.confidence = 98
        /\ decision.urgency = "IMMEDIATE"

\* a loss of exactly 2.0% met with an oversold RSI, bullish signals and a
\* high water mark that arms the trailing stop
C1_Witness ==
    /\ HoldingMode
    /\ LossAtLeast(STOP_LOSS_PCT)
    /\ td.currentPrice = 98
    /\ ArgPos.averagePrice = 100
    /\ ArgPos.highWaterMark = 110
    /\ td.rsi = <<25>>
    /\ Len(getBullishSignals(td.signals)) = 3
    /\ decision.rule = "STOP_LOSS"

\* C2: in HOLDING mode a P&L at or above PROFIT_TARGET_PCT always returns SELL
\* of the full quantity with confidence 0.95 and urgency HIGH
C2_TakeProfit ==
    (HoldingMode /\ GainAtLeast(PROFIT_TARGET_PCT)) =>
        /\ decision.action = "SELL"
        /\ decision.quantity = ArgPos.quantity
        /\ decision.confidence = 95
        /\ decision.urgency = "HIGH"

\* a gain of exactly 3% met with an oversold RSI and an uptrend
C2_Witness ==
    /\ HoldingMode
    /\ td.currentPrice = 103
    /\ ArgPos.averagePrice = 100
    /\ ArgPos.highWaterMark = 0
    /\ td.rsi = <<25>>
    /\ determineTrend(td) = "UPTREND"
    /\ decision.rule = "TAKE_PROFIT"

ExitRules == {"STOP_LOSS", "TAKE_PROFIT", "TRAILING_STOP", "TECHNICAL_SELL",
              "HOLDING_POSITION"}

\* C4: the exit logic is applied if and only if the position is non-null with
\* quantity >= 0.001 and quantity * currentPrice >= 10
C4_ModeSelection ==
    Done =>
        (decision.rule \in ExitRules <=>
            /\ position # Null
            /\ ArgPos.quantity >= 10
            /\ ArgPos.quantity * td.currentPrice >= 10 * QtyScale)

\* C5: in FLAT mode a volume below MIN_VOLUME_THRESHOLD returns HOLD with
\* quantity 0 and confidence 0, whatever the buy score would be
C5_VolumeGate ==
    (FlatMode /\ td.volume < MIN_VOLUME_THRESHOLD) =>
        /\ decision.action = "HOLD"
        /\ decision.quantity = 0
        /\ decision.confidence = 0

\* a volume of 999 with a buy score of 9
C5_Witness ==
    /\ FlatMode
    /\ td.volume = 999
    /\ BuyScoreOf(td) = 9
    /\ decision.action = "HOLD"
    /\ decision.rule = "INSUFFICIENT_VOLUME"

\* C6: in FLAT mode with the pre-checks passed the Decision is BUY exactly when
\* the buy score is >= 7, with confidence min(0.95, score/10) and urgency HIGH
\* from 9 and MEDIUM below; under 7 it is HOLD, quantity 0, confidence 0.3
C6_EntryRule ==
    (FlatMode /\ td.volume >= MIN_VOLUME_THRESHOLD) =>
        /\ decision.action = "BUY" <=> BuyScoreOf(td) >= 7
        /\ BuyScoreOf(td) >= 7 =>
              /\ decision.confidence = Min(95, BuyScoreOf(td) * 10)
              /\ decision.urgency = (IF BuyScoreOf(td) >= 9 THEN "HIGH" ELSE "MEDIUM")
        /\ BuyScoreOf(td) < 7 =>
              /\ decision.action = "HOLD"
              /\ decision.quantity = 0
              /\ decision.confidence = 30

\* a BUY at the threshold score of exactly 7
C6_Witness ==
    /\ FlatMode
    /\ td.volume >= MIN_VOLUME_THRESHOLD
    /\ BuyScoreOf(td) = 7
    /\ decision.action = "BUY"
    /\ decision.confidence = 70
    /\ decision.urgency = "MEDIUM"

\* C8: every Decision has an action among BUY, SELL, HOLD and a quantity >= 0;
\* FLAT mode never returns SELL, HOLDING mode never returns BUY; a SELL carries
\* the full position quantity and a HOLD carries quantity 0
C8_DecisionShape ==
    Done =>
        /\ decision.action \in {"BUY", "SELL", "HOLD"}
        /\ decision.quantity >= 0
        /\ FlatMode => decision.action # "SELL"
        /\ HoldingMode => decision.action # "BUY"
        /\ decision.action = "SELL" =>
              position # Null /\ decision.quantity = ArgPos.quantity
        /\ decision.action = "HOLD" => decision.quantity = 0

\* a SELL of a position larger than the per-trade maximum
C8_Witness ==
    /\ HoldingMode
    /\ decision.action = "SELL"
    /\ ArgPos.quantity = 10000
    /\ decision.quantity = 10000

\* the test's call analyze(technicalData, {quantity: 0}) answered with BUY
C8_WitnessFlat ==
    /\ FlatMode
    /\ position # Null
    /\ ArgPos.quantity = 0
    /\ decision.action = "BUY"

\* C12: with neither stop loss nor take profit matching, the Decision is the
\* trailing-stop SELL (full quantity, urgency HIGH) exactly when highWaterMark
\* > averagePrice, currentPrice <= highWaterMark * (1 - TRAILING_STOP_PCT/100)
\* and that trailing-stop price is above averagePrice; it is never issued at
\* a P&L at or below -STOP_LOSS_PCT
C12_TrailingStop ==
    HoldingMode =>
        /\ (~LossAtLeast(STOP_LOSS_PCT) /\ ~GainAtLeast(PROFIT_TARGET_PCT)) =>
              (decision.rule = "TRAILING_STOP" <=> TrailingCondition)
        /\ decision.rule = "TRAILING_STOP" =>
              /\ decision.action = "SELL"
              /\ decision.quantity = ArgPos.quantity
              /\ decision.urgency = "HIGH"
              /\ ArgPos.highWaterMark * (1000 - TRAILING_STOP_PCT)
                    > ArgPos.averagePrice * 1000
              /\ ~LossAtLeast(STOP_LOSS_PCT)

\* the trailing stop sells a position whose price fell from its peak to
\* below the average price, inside the stop-loss band
C12_Witness ==
    /\ HoldingMode
    /\ decision.rule = "TRAILING_STOP"
    /\ decision.quantity = ArgPos.quantity
    /\ td.currentPrice < ArgPos.averagePrice

\* a peak whose trailing-stop price is not above the average price does not
\* sell
C12_WitnessBelowAverage ==
    /\ HoldingMode
    /\ ArgPos.highWaterMark > ArgPos.averagePrice
    /\ td.currentPrice * 1000 <= ArgPos.highWaterMark * (1000 - TRAILING_STOP_PCT)
    /\ ~TrailingCondition
    /\ ~LossAtLeast(STOP_LOSS_PCT)
    /\ decision.rule # "TRAILING_STOP"

NoHigherExit ==
    /\ ~LossAtLeast(STOP_LOSS_PCT)
    /\ ~GainAtLeast(PROFIT_TARGET_PCT)
    /\ ~TrailingCondition

\* C13: with no higher-priority exit matching, the Decision is the technical
\* SELL (full quantity, urgency MEDIUM) if and only if the sell score is >= 8
\* and the P&L percentage is > -1.0; the sell score lies in 0..10; in every
\* remaining case the Decision is HOLD with quantity 0, confidence 0.6 and
\* urgency LOW
C13_TechnicalSell ==
    /\ Done => SellScoreOf(td) \in 0..10
    /\ (HoldingMode /\ NoHigherExit) =>
          IF TechnicalCondition
          THEN /\ decision.rule = "TECHNICAL_SELL"
               /\ decision.action = "SELL"
               /\ decision.quantity = ArgPos.quantity
               /\ decision.urgency = "MEDIUM"
          ELSE /\ decision.action = "HOLD"
               /\ decision.quantity = 0
               /\ decision.confidence = 60
               /\ decision.urgency = "LOW"

\* a sell score of 8 at a P&L of 0 sells
C13_Witness ==
    /\ HoldingMode
    /\ NoHigherExit
    /\ SellScoreOf(td) >= 8
    /\ decision.rule = "TECHNICAL_SELL"
    /\ decision.quantity = ArgPos.quantity

\* a sell score of 8 at a P&L of exactly -1.0% holds
C13_WitnessLossBand ==
    /\ HoldingMode
    /\ NoHigherExit
    /\ SellScoreOf(td) >= 8
    /\ ~LossBelow(10)
    /\ decision.action = "HOLD"

\* the divisions of analyze: by position.averagePrice for the P&L in
\* manageExistingPosition, by sma20 for the SMA distance in the two scores
PnlDivides == HoldingMode
SmaDistanceDivides ==
    Done /\ decision.rule \in {"STRONG_BUY", "WAITING_FOR_ENTRY", "TECHNICAL_SELL",
                               "HOLDING_POSITION"}

\* C16: analyze returns a Decision for every input and divides by zero in
\* none: an averagePrice of 0, a currentPrice of 0 and an SMA of 0 are
\* guarded, so that no infinite or NaN P&L or SMA distance is compared
C16_Totality ==
    Done =>
        /\ decision.action \in {"BUY", "SELL", "HOLD"}
        /\ PnlDivides => ArgPos.averagePrice # 0
        /\ SmaDistanceDivides => getLatestSMA(td) # 0

\* the position is one the store returns: quantity >= 0.001 and
\* quantity * averagePrice >= 10
StoreValid == position # Null /\ meetsMinimum(ArgPos.quantity, ArgPos.averagePrice)

\* C26: a position the store returns is handled in HOLDING mode whatever
\* the current price is: analyze never returns BUY for it, and a loss of
\* STOP_LOSS_PCT or more yields the stop-loss SELL
C26_StoreValidIsHolding ==
    (Done /\ StoreValid) =>
        /\ HoldingMode
        /\ decision.action # "BUY"
        /\ LossAtLeast(STOP_LOSS_PCT) =>
              (decision.action = "SELL" /\ decision.rule = "STOP_LOSS")

(***************************************************************************)
(* Properties of repeated calls, checked under SpecRepeat                  *)
(***************************************************************************)
\* C7: two calls of analyze with identical arguments return identical
\* Decisions, whatever was called before and whatever the wall-clock time of
\* each call is
C7_Determinism ==
    (Done /\ prev # NoDecision) => decision = prev

(***************************************************************************)
(* Properties of the trading handler, checked under SpecHandler            *)
(***************************************************************************)
Analysed(r) == h[r].decision # NoDecision

\* an invocation that has taken the cooldown check, found the storage in
\* cooldown, and was not forced
BlockedByCooldown(r) ==
    /\ h[r].pc \notin {"idle", "health", "cooldown"}
    /\ h[r].inCooldown
    /\ ~h[r].params.forceAction

\* C9: confidence is on one scale: every Decision strategy.analyze returns,
\* on any path, has confidence within [0,1], and the minimum confidence the
\* handler requires for auto-trading (and reports) lies on that same scale
C9_OneConfidenceScale ==
    \A r \in reqs :
        /\ Analysed(r) => h[r].decision.confidence \in 0..ConfidenceScale
        /\ h[r].response.kind = "ANALYSIS" =>
              h[r].response.minConfidenceRequired \in 0..ConfidenceScale

PastAutoTrade(r) ==
    /\ h[r].pc \in {"autoUpdate", "respond", "manualUpdate", "done"}
    /\ Analysed(r)

\* C11: with autoTrade enabled and the system not in cooldown, a BUY or SELL
\* Decision of strategy.analyze is forwarded to order placement:
\* placeAlpacaOrder is called with the Decision's side and quantity
C11_DecisionForwarded ==
    \A r \in reqs :
        (/\ PastAutoTrade(r)
         /\ h[r].params.autoTrade
         /\ ~h[r].inCooldown
         /\ h[r].decision.action \in {"BUY", "SELL"})
        => \E i \in 1..Len(h[r].calls) :
              h[r].calls[i] = OrderCall(toLowerCase(h[r].decision.action),
                                        h[r].decision.quantity)

\* the snapshot with the volume of the live quote merged into it
mergedTechnicalData(m) == [handlerTechnicalData(m) EXCEPT !.volume = m.volume]

EntryInputs(r) ==
    /\ Analysed(r)
    /\ engine = "ProfessionalTradingStrategy"
    /\ ~validatePosition(h[r].currentPosition, market.price)
    /\ market.volume >= MIN_VOLUME_THRESHOLD
    /\ BuyScoreOf(mergedTechnicalData(market)) >= 7

\* C23: the handler merges the volume of the live quote into the snapshot
\* it passes to strategy.analyze: with no valid position, a quote volume of
\* at least MIN_VOLUME_THRESHOLD and a buy score of at least 7, the
\* handler's Decision is BUY
C23_EntryNotBlocked ==
    \A r \in reqs : EntryInputs(r) => h[r].decision.action = "BUY"

\* what the handler does instead: under ProfessionalTradingStrategy no
\* Decision of the handler is ever BUY
C23_NeverBuy ==
    \A r \in reqs :
        (Analysed(r) /\ engine = "ProfessionalTradingStrategy")
            => h[r].decision.action # "BUY"

Simulated(r) == h[r].orderResult # Null /\ h[r].orderResult[1].status = "simulated"

\* C27: an order placed without confirm is answered with status simulated,
\* reaches no broker, and the handler then writes neither the trade log nor
\* the position, on the automatic and on the manual path
C27_SimulatedNoWrite ==
    \A r \in reqs :
        /\ (h[r].calls # <<>> /\ ~h[r].params.confirm /\ h[r].orderResult # Null)
              => Simulated(r)
        /\ Simulated(r) =>
              /\ h[r].orders = <<>>
              /\ h[r].writes \cap {"trade", "position"} = {}
              /\ h[r].pc \notin {"autoUpdate", "manualUpdate"}

\* a simulated automatic order, answered
C27_Witness ==
    \E r \in reqs :
        /\ Simulated(r)
        /\ h[r].params.autoTrade
        /\ h[r].pc = "done"
        /\ h[r].response.autoTrade = "executed"

\* a simulated manual order, answered
C27_WitnessManual ==
    \E r \in reqs :
        /\ Simulated(r)
        /\ IsManualTrade(h[r].params)
        /\ h[r].pc = "done"
        /\ h[r].response.kind = "TRADE"

\* the invocation answers success and reports an executed order
AnswersExecuted(r) ==
    /\ h[r].pc = "done"
    /\ h[r].response.code = 200
    /\ \/ h[r].response.autoTrade = "executed"
       \/ h[r].response.kind = "TRADE"

\* C29: every real order the handler places is reflected in storage or
\* reported as a failure: it never answers success with an executed order
\* while updatePosition failed and the trade log or the position is
\* without that trade
C29_OrderRecordedOrReported ==
    \A r \in reqs :
        (AnswersExecuted(r) /\ h[r].orders # <<>>)
            => {"trade", "position"} \subseteq h[r].writes

(***************************************************************************)
(* Properties of overlapping invocations, checked under SpecConcurrent     *)
(***************************************************************************)
\* the invocation found the store flat and out of cooldown and has placed
\* an automatic BUY order that reached the broker
PlacedBuy(r) ==
    /\ h[r].pc \in {"autoUpdate", "respond", "done"}
    /\ ~h[r].inCooldown
    /\ h[r].currentPosition = Null
    /\ h[r].orders # <<>>
    /\ h[r].orders[1].side = "buy"

\* C24: when two invocations overlap in the same flat, non-cooldown state,
\* they do not both pass the cooldown check and both place an automatic
\* BUY order
C24_OneOrderPerDecision ==
    \A r1 \in reqs, r2 \in reqs :
        r1 # r2 => ~(PlacedBuy(r1) /\ PlacedBuy(r2))

\* both invocations are past the cooldown check before either has ordered,
\* and both orders are recorded
C24_BothOrdered ==
    /\ PlacedBuy("r1") /\ PlacedBuy("r2")
    /\ h["r1"].pc = "done" /\ h["r2"].pc = "done"
    /\ Len(trades) = 2
    /\ Len(sheet) = 1 /\ sheet[1].quantity = 2 * DEFAULT_QTY

(***************************************************************************)
(* Properties of the risk gate, checked under SpecRisk                     *)
(***************************************************************************)
RiskPauseDue ==
    \/ /\ lastTradeArg # Null
       /\ lastTradeArg[1].consecutiveLosses >= MAX_CONSECUTIVE_LOSSES
    \/ /\ accountInfoArg # Null
       /\ \/ accountInfoArg[1].dailyTrades >= MAX_DAILY_TRADES
          \/ accountInfoArg[1].drawdownPct >= MAX_DRAWDOWN_PCT

\* C17: in FLAT mode, when the consecutive-loss count has reached
\* MAX_CONSECUTIVE_LOSSES, or the daily trade count MAX_DAILY_TRADES, or the
\* drawdown MAX_DRAWDOWN_PCT, the Decision is HOLD with confidence 0 and no
\* BUY is returned
C17_RiskPause ==
    (FlatMode /\ RiskPauseDue) =>
        /\ decision.action = "HOLD"
        /\ decision.confidence = 0

(***************************************************************************)
(* Properties of the buy score, checked under SpecScore                    *)
(***************************************************************************)
Scored == pc = "done" /\ returned # <<>>

ScoreOf(a) ==
    calculateBuyScore(a.rsi, a.sma20, a.currentPrice, a.trend,
                      getBullishSignals(a.signals), a.volume)

\* the arguments that earn no point
Baseline ==
    [rsi |-> 100, sma20 |-> 100, currentPrice |-> 100, trend |-> "DOWNTREND",
     signals |-> <<>>, volume |-> 0]

\* what one argument earns, the others earning nothing
RsiPoints(rsi) == ScoreOf([Baseline EXCEPT !.rsi = rsi])
SmaPoints(sma20, price) == ScoreOf([Baseline EXCEPT !.sma20 = sma20, !.currentPrice = price])
TrendPoints(trend) == ScoreOf([Baseline EXCEPT !.trend = trend])
SignalPoints(signals) == ScoreOf([Baseline EXCEPT !.signals = signals])
VolumePoints(volume) == ScoreOf([Baseline EXCEPT !.volume = volume])

BullishCount(signals) == Cardinality({i \in 1..Len(signals) : signals[i] = "BUY"})

\* C18: calculateBuyScore returns an integer in 0..10 that is the sum of its
\* sub-scores, each within its band: RSI 0..3 and never fewer points for a
\* lower RSI, price versus SMA20 0..2, trend 0..2 with UPTREND > NEUTRAL >
\* DOWNTREND, the number of bullish signals capped at 2, and one volume
\* point exactly when volume > 2 * MIN_VOLUME_THRESHOLD
C18_BuyScore ==
    Scored =>
        /\ returned[1] \in 0..10
        /\ ScoreOf(Baseline) = 0
        /\ returned[1] = RsiPoints(args.rsi) + SmaPoints(args.sma20, args.currentPrice)
                           + TrendPoints(args.trend) + SignalPoints(args.signals)
                           + VolumePoints(args.volume)
        /\ RsiPoints(args.rsi) \in 0..3
        /\ \A lower \in RsiArgs : lower <= args.rsi => RsiPoints(lower) >= RsiPoints(args.rsi)
        /\ SmaPoints(args.sma20, args.currentPrice) \in 0..2
        /\ TrendPoints(args.trend) \in 0..2
        /\ TrendPoints("UPTREND") > TrendPoints("NEUTRAL")
        /\ TrendPoints("NEUTRAL") > TrendPoints("DOWNTREND")
        /\ SignalPoints(args.signals) = Min(2, BullishCount(args.signals))
        /\ VolumePoints(args.volume) =
             (IF args.volume > 2 * MIN_VOLUME_THRESHOLD THEN 1 ELSE 0)

\* every sub-score at its maximum
C18_Witness ==
    /\ Scored
    /\ returned[1] = 10
    /\ args.volume > 2 * MIN_VOLUME_THRESHOLD
    /\ BullishCount(args.signals) > 2

\* a volume of exactly twice the threshold earns no point
C18_WitnessAtThreshold ==
    /\ Scored
    /\ args.volume = 2 * MIN_VOLUME_THRESHOLD
    /\ returned[1] = 9

(***************************************************************************)
(* Properties of the position sizing, checked under SpecSizing             *)
(***************************************************************************)
Sized == pc = "done" /\ returned # <<>>

SizeOf(a) ==
    calculatePositionSize(a.currentPrice, a.volatility,
                          [positionSizeMultiplier |-> a.positionSizeMultiplier])

PriceTier(price) == IF price > 4000 THEN 2 ELSE IF price > 3000 THEN 1 ELSE 0

\* C19: calculatePositionSize returns a quantity in [0.01, MAX_POSITION_SIZE]
\* for every price, every volatility >= 0 (0 included) and every risk
\* multiplier; the volatility multiplier lies in [0.5, 1.5]; the result never
\* increases when the volatility rises or the price moves into a higher tier
C19_PositionSize ==
    Sized =>
        /\ returned[1].size >= MIN_SIZE
        /\ returned[1].size <= MAX_POSITION_SIZE
        /\ returned[1].volAdjustment >= QtyScale \div 2
        /\ returned[1].volAdjustment <= QtyScale + QtyScale \div 2
        /\ \A higher \in VolatilityArgs :
             higher >= args.volatility
                => SizeOf([args EXCEPT !.volatility = higher]) <= returned[1].size
        /\ \A price \in SizingPriceArgs :
             PriceTier(price) >= PriceTier(args.currentPrice)
                => SizeOf([args EXCEPT !.currentPrice = price]) <= returned[1].size

\* a size strictly inside the limits, from a volatility multiplier strictly
\* inside its band and a price of the highest tier
C19_Witness ==
    /\ Sized
    /\ returned[1].size > MIN_SIZE
    /\ returned[1].size < MAX_POSITION_SIZE
    /\ returned[1].volAdjustment > QtyScale \div 2
    /\ returned[1].volAdjustment < QtyScale + QtyScale \div 2
    /\ PriceTier(args.currentPrice) = 2

\* a volatility of 0
C19_WitnessZeroVolatility ==
    /\ Sized
    /\ args.volatility = 0
    /\ returned[1].size = MAX_POSITION_SIZE

(***************************************************************************)
(* Properties of the high water mark, checked under SpecMonitor            *)
(***************************************************************************)
\* monitorPosition has handed the position to strategy.analyze
MonitorAnalysed == pc = "analysed"

\* C20: the highWaterMark a run evaluates the trailing stop with is the
\* highest price observed since the position was opened: once a run has
\* observed a price, every later run on the same open position hands
\* strategy.analyze a highWaterMark that is at least that price
C20_HighWaterMark ==
    MonitorAnalysed => position[1].highWaterMark >= observedPeak

(***************************************************************************)
(* Properties of the position store, checked under SpecStore               *)
(***************************************************************************)
Updated == args # <<>>

\* C21: starting from an empty Positions sheet, after any sequence of
\* updatePosition calls of EnhancedStorageService with BUY and SELL trades,
\* every stored row has quantity >= 0.001, quantity * averagePrice >= 10,
\* averagePrice > 0 and highWaterMark >= averagePrice
C21_StoreInvariant ==
    engine = "EnhancedStorageService" =>
        \A i \in 1..Len(sheet) :
            /\ sheet[i].quantity >= MIN_POSITION_QUANTITY
            /\ sheet[i].quantity * sheet[i].averagePrice >= MIN_POSITION_VALUE * QtyScale
            /\ sheet[i].averagePrice > 0
            /\ sheet[i].highWaterMark >= sheet[i].averagePrice

\* a position bought twice, the second time under its first price
C21_Witness ==
    /\ engine = "EnhancedStorageService"
    /\ Updated
    /\ args[1].trade.action = "BUY"
    /\ args[1].before # Null
    /\ \E i \in 1..Len(sheet) : sheet[i].highWaterMark > sheet[i].averagePrice

\* the position the claim expects after the call: absent under the minimum
\* thresholds, otherwise the quantity and the average of the lifecycle
Present(q, cost, avg) ==
    q >= MIN_POSITION_QUANTITY /\ cost >= MIN_POSITION_VALUE * QtyScale

IsPosition(p, q, avg) == p # Null /\ p[1].quantity = q /\ p[1].averagePrice = avg

\* avg is cost / q to the precision of the price unit
IsAverage(avg, cost, q) == 2 * avg * q <= 2 * cost + q /\ 2 * cost - q <= 2 * avg * q

Lifecycle(t, before, after) ==
    IF t.action = "BUY" /\ before = Null
    THEN IF Present(t.quantity, t.quantity * t.price, t.price)
         THEN IsPosition(after, t.quantity, t.price)
         ELSE after = Null
    ELSE IF t.action = "BUY"
    THEN LET newQty == before[1].quantity + t.quantity
             cost == before[1].quantity * before[1].averagePrice + t.quantity * t.price
         IN  /\ after # Null
             /\ after[1].quantity = newQty
             /\ IsAverage(after[1].averagePrice, cost, newQty)
    ELSE IF before = Null
    THEN after = Null
    ELSE LET remaining == Max(0, before[1].quantity - t.quantity)
         IN  IF Present(remaining, remaining * before[1].averagePrice,
                        before[1].averagePrice)
             THEN IsPosition(after, remaining, before[1].averagePrice)
             ELSE after = Null

\* C22: a first BUY of q at p creates the position (q, p); a further BUY
\* gives quantity Q + q and the weighted average (Q*A + q*p) / (Q + q); a
\* SELL of q gives max(0, Q - q) at the same average; the position is
\* absent once the quantity is 0 or under the minimum thresholds; a SELL
\* without a position creates none
C22_Lifecycle ==
    Updated => Lifecycle(args[1].trade, args[1].before, returned[1])

RowSet(rows) == {rows[i] : i \in 1..Len(rows)}

\* the Positions sheet after the call of first and then the call of second
Serial(first, second) ==
    LET t1 == callers[first].trade[1]
        t2 == callers[second].trade[1]
        one == updatePosition(args[1].trades, args[1].sheet, t1.symbol, t1)
    IN  updatePosition(one.trades, one.sheet, t2.symbol, t2).sheet

BothDone == callers # <<>> /\ \A c \in DOMAIN callers : callers[c].pc = "done"

\* C25: when two updatePosition calls overlap, the final Positions sheet
\* reflects both trades: it is the sheet that the two calls give when one
\* runs after the other
C25_Serialized ==
    BothDone =>
        \/ RowSet(sheet) = RowSet(Serial("u1", "u2"))
        \/ RowSet(sheet) = RowSet(Serial("u2", "u1"))

\* a call has failed and no other call has run
FailedAlone(c) ==
    /\ callers[c].pc = "failed"
    /\ \A other \in DOMAIN callers : other # c => callers[other].pc = "idle"

\* C30: if updatePosition fails at any step, the Positions sheet and the
\* trade log are left as they were before the call
C30_UnchangedOnError ==
    \A c \in DOMAIN callers :
        FailedAlone(c) => (sheet = args[1].sheet /\ trades = args[1].trades)

(***************************************************************************)
(* Properties of the indicators, checked under SpecIndicators              *)
(***************************************************************************)
\* an RSI over RSI_INTERVAL changes needs one close more
MIN_BARS == RSI_INTERVAL + 1

\* C14: for every bar history of length < 15, lengths 1 to 14 included,
\* TechnicalIndicators.calculate raises an error instead of returning a
\* snapshot
C14_InsufficientData ==
    (pc # "idle" /\ Len(bars) < MIN_BARS) => pc = "failed"

\* the RSI and the SMA20 a Decision was computed from, and what they are when
\* absence is kept: the computed value, or nothing
RsiUsed == Some(getLatestRSI(td))
SmaUsed == Some(getLatestSMA(td))
RsiComputed == IF Len(td.rsi) > 0 THEN Some(Last(td.rsi)) ELSE Null
SmaComputed == IF Len(td.sma) > 0 THEN Some(Last(td.sma)) ELSE Null

\* C15: an indicator that needs N bars is absent until N bars exist, and the
\* RSI and SMA20 that reach the decision rules are the computed values or
\* are absent, never a substitute (an RSI of 50, an SMA equal to the price)
C15_NoFabricatedIndicator ==
    pc = "done" =>
        /\ Len(bars) < MIN_BARS => Len(td.rsi) = 0
        /\ Len(bars) < SMA_INTERVAL => Len(td.sma) = 0
        /\ RsiUsed = RsiComputed
        /\ SmaUsed = SmaComputed

====
